---- MODULE Spec2Model ----
(***************************************************************************)
(* DataViz: the series-resolution and statistics engine.                   *)
(*                                                                         *)
(*   calculateMetrics   src/utils/mathUtils.ts                             *)
(*   getColumnData, metricsData, xDomain, series construction              *)
(*                      src/components/ChartVisualizer.tsx                 *)
(*                                                                         *)
(* JavaScript numbers are modelled as exact rationals extended with NaN,   *)
(* +Infinity and -Infinity (rounding of finite doubles is not modelled).   *)
(* A number is a record [k, n, d]:                                         *)
(*    k = "fin"  : the rational n/d, d > 0, in lowest terms                *)
(*    k = "nan"  : NaN                                                     *)
(*    k = "inf"  : +Infinity (n = 1) or -Infinity (n = -1)                 *)
(*    k = "sqrt" : the irrational square root of the rational n/d          *)
(***************************************************************************)
EXTENDS Integers, Sequences, FiniteSets, TLC

VARIABLES xValues, yValues, calc, datasets, config, view, pc,
          charts, activeChartId, initializedRef, effectPending, clock, uuids,
          colorsUsed, nextColor, optionRef, selectValue, selectedRef,
          mounted, loading, error, reading

\* the state of App outside the dataset collection
appVars == <<charts, activeChartId, initializedRef, effectPending, clock, uuids>>

\* getNextColor and the select values of ConfigPanel, called on their own
panelVars == <<colorsUsed, nextColor, optionRef, selectValue, selectedRef>>

\* the FileUpload that is mounted, its state, and the FileReaders at work
uploadVars == <<mounted, loading, error, reading>>

vars == <<xValues, yValues, calc, datasets, config, view, pc, appVars,
          panelVars, uploadVars>>

----------------------------------------------------------------------------
(* Bounds *)

MaxLen == 3

MaxSeries == 2

\* the random identifiers (datasets and charts) one run may draw
MaxUuids == 3

\* the milliseconds the clock may advance
MaxClock == 2

----------------------------------------------------------------------------
(* JavaScript number arithmetic *)

NaN == [k |-> "nan", n |-> 0, d |-> 1]

PosInf == [k |-> "inf", n |-> 1, d |-> 1]

NegInf == [k |-> "inf", n |-> -1, d |-> 1]

AbsInt(i) == IF i < 0 THEN -i ELSE i

SignInt(i) == IF i < 0 THEN -1 ELSE IF i > 0 THEN 1 ELSE 0

RECURSIVE Gcd(_, _)
Gcd(a, b) == IF b = 0 THEN a ELSE Gcd(b, a % b)

\* the rational n/d (d # 0) in lowest terms with a positive denominator
Rat(n, d) ==
  LET g == Gcd(AbsInt(n), AbsInt(d))
      s == IF d < 0 THEN -1 ELSE 1
  IN  [k |-> "fin", n |-> (s * n) \div g, d |-> AbsInt(d) \div g]

Int2Num(i) == [k |-> "fin", n |-> i, d |-> 1]

Zero == Int2Num(0)

One == Int2Num(1)

\* the global isNaN, on a value that already is a number
isNaN(a) == a.k = "nan"

\* Number.isFinite
isFinite(a) == a.k = "fin"

Neg(a) ==
  IF a.k = "nan" THEN NaN ELSE [k |-> a.k, n |-> -(a.n), d |-> a.d]

\* a + b
Add(a, b) ==
  IF a.k = "nan" \/ b.k = "nan" THEN NaN
  ELSE IF a.k = "inf" /\ b.k = "inf" THEN (IF a.n = b.n THEN a ELSE NaN)
  ELSE IF a.k = "inf" THEN a
  ELSE IF b.k = "inf" THEN b
  ELSE Rat(a.n * b.d + b.n * a.d, a.d * b.d)

\* a - b
Sub(a, b) == Add(a, Neg(b))

\* a * b
Mul(a, b) ==
  IF a.k = "nan" \/ b.k = "nan" THEN NaN
  ELSE IF a.k = "inf" \/ b.k = "inf"
       THEN (IF SignInt(a.n) * SignInt(b.n) = 0 THEN NaN
             ELSE [k |-> "inf", n |-> SignInt(a.n) * SignInt(b.n), d |-> 1])
  ELSE Rat(a.n * b.n, a.d * b.d)

\* a / b (a zero divisor is +0: no operation of the program produces -0
\* as a divisor)
Div(a, b) ==
  IF a.k = "nan" \/ b.k = "nan" THEN NaN
  ELSE IF a.k = "inf" /\ b.k = "inf" THEN NaN
  ELSE IF a.k = "inf"
       THEN [k |-> "inf", n |-> (IF b.n < 0 THEN -(a.n) ELSE a.n), d |-> 1]
  ELSE IF b.k = "inf" THEN Zero
  ELSE IF b.n = 0
       THEN (IF a.n = 0 THEN NaN
             ELSE [k |-> "inf", n |-> SignInt(a.n), d |-> 1])
  ELSE Rat(a.n * b.d, a.d * b.n)

\* Math.abs
Abs(a) ==
  IF a.k = "nan" THEN NaN ELSE [k |-> a.k, n |-> AbsInt(a.n), d |-> a.d]

\* a === b on numbers
StrictEq(a, b) == a.k # "nan" /\ b.k # "nan" /\ a = b

\* a < b on numbers
Lt(a, b) ==
  IF a.k = "nan" \/ b.k = "nan" THEN FALSE
  ELSE IF a.k = "inf" THEN a.n = -1 /\ b # a
  ELSE IF b.k = "inf" THEN b.n = 1
  ELSE a.n * b.d < b.n * a.d

\* Math.min(a, b)
MathMin(a, b) ==
  IF a.k = "nan" \/ b.k = "nan" THEN NaN ELSE IF Lt(b, a) THEN b ELSE a

\* Math.max(a, b)
MathMax(a, b) ==
  IF a.k = "nan" \/ b.k = "nan" THEN NaN ELSE IF Lt(a, b) THEN b ELSE a

RECURSIVE IntSqrtFrom(_, _)
IntSqrtFrom(i, r) == IF (r + 1) * (r + 1) > i THEN r ELSE IntSqrtFrom(i, r + 1)

\* the largest r with r * r <= i
IntSqrt(i) == IntSqrtFrom(i, 0)

IsSquare(i) == IntSqrt(i) * IntSqrt(i) = i

\* Math.sqrt: exact on squares of rationals, symbolic otherwise
MathSqrt(a) ==
  IF a.k = "nan" THEN NaN
  ELSE IF a.k = "inf" THEN (IF a.n = 1 THEN PosInf ELSE NaN)
  ELSE IF a.n < 0 THEN NaN
  ELSE IF IsSquare(a.n) /\ IsSquare(a.d) THEN Rat(IntSqrt(a.n), IntSqrt(a.d))
  ELSE [k |-> "sqrt", n |-> a.n, d |-> a.d]

\* the rational whose square root MathSqrt(a) returned (exactness of sqrt)
Square(r) ==
  IF r.k = "sqrt" THEN [k |-> "fin", n |-> r.n, d |-> r.d] ELSE Mul(r, r)

----------------------------------------------------------------------------
(* calculateMetrics *)

Null == [null |-> TRUE]

MinInt(a, b) == IF a < b THEN a ELSE b

\* the pair test of both loops
PairOk(t, p) == ~isNaN(t) /\ ~isNaN(p)

\* the state of the first loop after positions 1..i (0-based 0..i-1);
\* `used` is a ghost: the positions that entered the sums
RECURSIVE FirstPass(_, _, _)
FirstPass(xs, ys, i) ==
  IF i = 0
  THEN [sumAbsDiff |-> Zero, sumSqDiff |-> Zero, sumTruth |-> Zero,
        count |-> 0, used |-> {}]
  ELSE LET s == FirstPass(xs, ys, i - 1)
           t == xs[i]
           p == ys[i]
           diff == Sub(t, p)
       IN  IF PairOk(t, p)
           THEN [sumAbsDiff |-> Add(s.sumAbsDiff, Abs(diff)),
                 sumSqDiff |-> Add(s.sumSqDiff, Mul(diff, diff)),
                 sumTruth |-> Add(s.sumTruth, t),
                 count |-> s.count + 1,
                 used |-> s.used \cup {i}]
           ELSE s

\* the second loop: sumSqTotal after positions 1..i
RECURSIVE SecondPass(_, _, _, _)
SecondPass(xs, ys, meanTruth, i) ==
  IF i = 0 THEN Zero
  ELSE LET s == SecondPass(xs, ys, meanTruth, i - 1)
           t == xs[i]
           p == ys[i]
       IN  IF PairOk(t, p)
           THEN Add(s, Mul(Sub(t, meanTruth), Sub(t, meanTruth)))
           ELSE s

calculateMetrics(xs, ys, seriesName, xName) ==
  IF Len(xs) = 0 \/ Len(ys) = 0 THEN Null
  ELSE LET length == MinInt(Len(xs), Len(ys))
           s == FirstPass(xs, ys, length)
       IN  IF s.count = 0 THEN Null
           ELSE LET meanTruth == Div(s.sumTruth, Int2Num(s.count))
                    sumSqTotal == SecondPass(xs, ys, meanTruth, length)
                    mae == Div(s.sumAbsDiff, Int2Num(s.count))
                    rmse == MathSqrt(Div(s.sumSqDiff, Int2Num(s.count)))
                    r2 == IF StrictEq(sumSqTotal, Zero) THEN Zero
                          ELSE Sub(One, Div(s.sumSqDiff, sumSqTotal))
                IN  [null |-> FALSE, seriesName |-> seriesName,
                     xName |-> xName, mae |-> mae, rmse |-> rmse,
                     r2 |-> r2, n |-> s.count, used |-> s.used]

----------------------------------------------------------------------------
(* Rows, cells and the coercion Number(cell) *)

\* a cell of a DataRow: string | number | null; `row[col]` of a key the row
\* does not have is undefined
NumCell(i) == [t |-> "num", n |-> i, s |-> ""]

StrCell(str) == [t |-> "str", n |-> 0, s |-> str]

NullCell == [t |-> "null", n |-> 0, s |-> ""]

UndefinedCell == [t |-> "undef", n |-> 0, s |-> ""]

\* the decimal literals that occur as strings in the loaded files
DecimalStrings == ("1" :> 1) @@ ("3" :> 3) @@ ("7" :> 7)

\* Number(str): the empty string is 0, a decimal literal its value,
\* "Infinity" and "-Infinity" the infinities, anything else NaN
StringToNumber(str) ==
  IF str = "" THEN Zero
  ELSE IF str = "Infinity" THEN PosInf
  ELSE IF str = "-Infinity" THEN NegInf
  ELSE IF str \in DOMAIN DecimalStrings THEN Int2Num(DecimalStrings[str])
  ELSE NaN

\* Number(cell): a number is itself, null is 0, undefined is NaN
ToNumber(cell) ==
  IF cell.t = "num" THEN Int2Num(cell.n)
  ELSE IF cell.t = "null" THEN Zero
  ELSE IF cell.t = "undef" THEN NaN
  ELSE StringToNumber(cell.s)

\* row[col]
Lookup(row, col) == IF col \in DOMAIN row THEN row[col] ELSE UndefinedCell

----------------------------------------------------------------------------
(* ChartVisualizer: column resolution *)

\* the result of datasets.find(...) when no dataset matches
UndefinedDs ==
  [id |-> "undefined", name |-> "", data |-> <<>>, columns |-> <<>>,
   color |-> ""]

\* an absent optional ColumnRef (yCol.xColRef)
UndefinedRef == [fileId |-> "undefined", column |-> "undefined"]

\* datasets.find(d => d.id === id)
FindDataset(dss, id) ==
  IF \E i \in 1..Len(dss) : dss[i].id = id
  THEN dss[CHOOSE i \in 1..Len(dss) :
             /\ dss[i].id = id
             /\ \A j \in 1..(i - 1) : dss[j].id # id]
  ELSE UndefinedDs

\* a property read on the result of find throws a TypeError on undefined
Thrown == [null |-> FALSE, threw |-> TRUE]

RECURSIVE DropNaN(_)
DropNaN(seq) ==
  IF seq = <<>> THEN <<>>
  ELSE IF isNaN(Head(seq)) THEN DropNaN(Tail(seq))
  ELSE <<Head(seq)>> \o DropNaN(Tail(seq))

\* ColumnValues that leaves out the cells that are not numbers
ColumnValues_DropNaN(ds, column) ==
  DropNaN([i \in 1..Len(ds.data) |-> ToNumber(Lookup(ds.data[i], column))])

\* ds.data.map(row => Number(row[column]))
ColumnValues(ds, column) ==
  [i \in 1..Len(ds.data) |-> ToNumber(Lookup(ds.data[i], column))]

getColumnData(dss, ref) ==
  LET ds == FindDataset(dss, ref.fileId)
  IN  IF ds = UndefinedDs THEN Null
      ELSE [null |-> FALSE, threw |-> FALSE,
            values |-> ColumnValues(ds, ref.column), name |-> ref.column]

\* EffectiveXRef that ignores the override of the series
EffectiveXRef_DefaultOnly(col, cfg) == cfg.xColRef

\* yCol.xColRef || config.xColRef
EffectiveXRef(col, cfg) ==
  IF col.xColRef # UndefinedRef THEN col.xColRef ELSE cfg.xColRef

----------------------------------------------------------------------------
(* ChartVisualizer: metricsData *)

\* lines 50-59 of the callback, reached with xData and yData; reading
\* .name or .values of null throws
MetricsEntry(dss, yCol, xData, yData) ==
  IF xData.null \/ yData.null THEN Thrown
  ELSE LET ds == FindDataset(dss, yCol.colRef.fileId)
           seriesName ==
             IF yCol.label # "" THEN yCol.label
             ELSE yData.name \o " (" \o
                  (IF ds # UndefinedDs /\ ds.name # "" THEN ds.name
                   ELSE "Unknown") \o ")"
           metrics == calculateMetrics(xData.values, yData.values,
                                       seriesName, xData.name)
       IN  IF metrics.null THEN Null
           ELSE [c \in {"color", "threw"} \cup DOMAIN metrics |->
                   IF c = "color" THEN yCol.color
                   ELSE IF c = "threw" THEN FALSE
                   ELSE metrics[c]]

\* the callback of config.yColumns.map: one entry or null for a series
MetricsOf(dss, cfg, yCol) ==
  LET xRef == EffectiveXRef(yCol, cfg)
      yRef == yCol.colRef
      xData == getColumnData(dss, xRef)
      yData == getColumnData(dss, yRef)
  IN  IF xData.null \/ yData.null THEN Null
      ELSE MetricsEntry(dss, yCol, xData, yData)

\* config.yColumns.map(...) before .filter(Boolean)
MetricsMapped(dss, cfg) ==
  [k \in 1..Len(cfg.yColumns) |-> MetricsOf(dss, cfg, cfg.yColumns[k])]

\* .filter(Boolean)
RECURSIVE FilterBoolean(_)
FilterBoolean(seq) ==
  IF seq = <<>> THEN <<>>
  ELSE IF Head(seq).null THEN FilterBoolean(Tail(seq))
  ELSE <<Head(seq)>> \o FilterBoolean(Tail(seq))

metricsData(dss, cfg) ==
  IF ~cfg.showMetrics THEN <<>> ELSE FilterBoolean(MetricsMapped(dss, cfg))

----------------------------------------------------------------------------
(* ChartVisualizer: xDomain *)

\* the domain ['auto', 'auto']
AutoDomain == [auto |-> TRUE, min |-> Zero, max |-> Zero]

\* ds.data.forEach(row => ...) of the scan, after rows 1..i; `scanned` is a
\* ghost: which series (0: the chart default), role and row supplied a value
RECURSIVE ScanRows(_, _, _, _, _, _)
ScanRows(st, ds, column, k, role, i) ==
  IF i = 0 THEN st
  ELSE LET prev == ScanRows(st, ds, column, k, role, i - 1)
           val == ToNumber(Lookup(ds.data[i], column))
       IN  IF ~isNaN(val)
           THEN [min |-> MathMin(prev.min, val),
                 max |-> MathMax(prev.max, val),
                 hasValidNumber |-> TRUE,
                 threw |-> prev.threw,
                 scanned |-> prev.scanned \cup
                               {[series |-> k, role |-> role, row |-> i]}]
           ELSE prev

\* ds.data.forEach(...): reading .data of undefined throws
ScanDataset(st, ds, column, k, role) ==
  IF ds = UndefinedDs THEN [st EXCEPT !.threw = TRUE]
  ELSE ScanRows(st, ds, column, k, role, Len(ds.data))

\* the body of activeXRefs.forEach / config.yColumns.forEach for one ref
ScanRef(dss, st, ref, k, role) ==
  LET ds == FindDataset(dss, ref.fileId)
  IN  IF ds # UndefinedDs
      THEN ScanDataset(st, ds, ref.column, k, role)
      ELSE st

\* activeXRefs: the chart default, then the overrides of series 1..n, each
\* with the (ghost) index of the series it came from
RECURSIVE ActiveXRefs(_, _)
ActiveXRefs(cfg, n) ==
  IF n = 0 THEN <<[ref |-> cfg.xColRef, series |-> 0]>>
  ELSE IF cfg.yColumns[n].xColRef # UndefinedRef
       THEN Append(ActiveXRefs(cfg, n - 1),
                   [ref |-> cfg.yColumns[n].xColRef, series |-> n])
       ELSE ActiveXRefs(cfg, n - 1)

RECURSIVE ScanXRefs(_, _, _, _)
ScanXRefs(dss, st, refs, n) ==
  IF n = 0 THEN st
  ELSE ScanRef(dss, ScanXRefs(dss, st, refs, n - 1),
               refs[n].ref, refs[n].series, "x")

RECURSIVE ScanYRefs(_, _, _, _)
ScanYRefs(dss, st, cfg, n) ==
  IF n = 0 THEN st
  ELSE ScanRef(dss, ScanYRefs(dss, st, cfg, n - 1),
               cfg.yColumns[n].colRef, n, "y")

\* the scan state when the loops of xDomain are over
DomainScan(dss, cfg) ==
  LET st0 == [min |-> PosInf, max |-> NegInf, hasValidNumber |-> FALSE,
              threw |-> FALSE, scanned |-> {}]
      refs == ActiveXRefs(cfg, Len(cfg.yColumns))
      st1 == ScanXRefs(dss, st0, refs, Len(refs))
  IN  IF cfg.type = "diagonal"
      THEN ScanYRefs(dss, st1, cfg, Len(cfg.yColumns))
      ELSE st1

\* 5% as the rational 1/20
PaddingFactor == Rat(1, 20)

xDomain(dss, cfg) ==
  IF Len(dss) = 0 THEN AutoDomain
  ELSE LET st == DomainScan(dss, cfg)
       IN  IF ~st.hasValidNumber THEN AutoDomain
           ELSE LET padding == Mul(Sub(st.max, st.min), PaddingFactor)
                    min == IF StrictEq(st.min, st.max)
                           THEN Sub(st.min, One) ELSE st.min
                    max == IF StrictEq(st.min, st.max)
                           THEN Add(st.max, One) ELSE st.max
                IN  [auto |-> FALSE, min |-> Sub(min, padding),
                     max |-> Add(max, padding)]

\* the ghost of the scan: nothing is scanned when xDomain returns early
DomainScanned(dss, cfg) ==
  IF Len(dss) = 0 THEN {} ELSE DomainScan(dss, cfg).scanned

\* whether computing xDomain threw
DomainThrew(dss, cfg) == Len(dss) # 0 /\ DomainScan(dss, cfg).threw

\* the domain of the left y axis: domain={isDiagonal && xDomain ? xDomain :
\* ['auto', 'auto']}; xDomain is an array, hence always truthy
LeftAxisDomain(cfg, dom) == IF cfg.type = "diagonal" THEN dom ELSE AutoDomain

\* single-dataset variant: one pass of activeXCols.forEach, or of
\* config.yColumns.forEach, over the cells of one row; only the pass over
\* the x columns sets hasValidNumber
RECURSIVE ScanCells(_, _, _, _, _)
ScanCells(st, row, cols, n, setsFlag) ==
  IF n = 0 THEN st
  ELSE LET prev == ScanCells(st, row, cols, n - 1, setsFlag)
           val == ToNumber(Lookup(row, cols[n]))
       IN  IF ~isNaN(val)
           THEN [min |-> MathMin(prev.min, val),
                 max |-> MathMax(prev.max, val),
                 hasValidNumber |-> prev.hasValidNumber \/ setsFlag]
           ELSE prev

\* single-dataset variant: data.forEach(row => ...) after rows 1..i
RECURSIVE ScanRowsSingle(_, _, _, _, _)
ScanRowsSingle(data, xCols, yCols, isDiagonal, i) ==
  IF i = 0
  THEN [min |-> PosInf, max |-> NegInf, hasValidNumber |-> FALSE]
  ELSE LET prev == ScanRowsSingle(data, xCols, yCols, isDiagonal, i - 1)
           afterX == ScanCells(prev, data[i], xCols, Len(xCols), TRUE)
       IN  IF isDiagonal
           THEN ScanCells(afterX, data[i], yCols, Len(yCols), FALSE)
           ELSE afterX

\* single-dataset variant of xDomain over the rows of one table; the columns
\* are the column names of the configuration's references (a column that
\* occurs twice in the Set activeXCols is scanned once there and twice here,
\* with the same minimum and maximum)
xDomainSingle(data, cfg) ==
  IF Len(data) = 0 THEN AutoDomain
  ELSE LET refs == ActiveXRefs(cfg, Len(cfg.yColumns))
           xCols == [j \in 1..Len(refs) |-> refs[j].ref.column]
           yCols == [k \in 1..Len(cfg.yColumns) |->
                       cfg.yColumns[k].colRef.column]
           st == ScanRowsSingle(data, xCols, yCols, cfg.type = "diagonal",
                                Len(data))
       IN  IF ~st.hasValidNumber THEN AutoDomain
           ELSE LET padding == Mul(Sub(st.max, st.min), PaddingFactor)
                    min == IF StrictEq(st.min, st.max)
                           THEN Sub(st.min, One) ELSE st.min
                    max == IF StrictEq(st.min, st.max)
                           THEN Add(st.max, One) ELSE st.max
                IN  [auto |-> FALSE, min |-> Sub(min, padding),
                     max |-> Add(max, padding)]

----------------------------------------------------------------------------
(* ChartVisualizer: series construction *)

\* the comparator (a, b) => a.x - b.x as the sort uses it: a NaN result
\* counts as 0
CompareX(a, b) ==
  LET dif == Sub(a.x, b.x)
  IN  IF dif.k = "nan" THEN 0 ELSE SignInt(dif.n)

\* InsertSorted that puts p in front of the elements that compare equal
RECURSIVE InsertSorted_TiesFirst(_, _)
InsertSorted_TiesFirst(sorted, p) ==
  IF sorted = <<>> THEN <<p>>
  ELSE LET last == sorted[Len(sorted)]
       IN  IF CompareX(last, p) >= 0
           THEN Append(InsertSorted_TiesFirst(
                          SubSeq(sorted, 1, Len(sorted) - 1), p), last)
           ELSE Append(sorted, p)

\* Array.prototype.sort is stable (ECMAScript 2019): insertion of p after
\* the last element that does not compare greater than p
RECURSIVE InsertSorted(_, _)
InsertSorted(sorted, p) ==
  IF sorted = <<>> THEN <<p>>
  ELSE LET last == sorted[Len(sorted)]
       IN  IF CompareX(last, p) > 0
           THEN Append(InsertSorted(SubSeq(sorted, 1, Len(sorted) - 1), p),
                       last)
           ELSE Append(sorted, p)

RECURSIVE SortByX(_)
SortByX(seq) ==
  IF seq = <<>> THEN <<>>
  ELSE InsertSorted(SortByX(SubSeq(seq, 1, Len(seq) - 1)), seq[Len(seq)])

\* KeepPoint that tests the y value only
KeepPoint_YOnly(xVal, yVal) == ~isNaN(yVal)

\* the test that keeps a point
KeepPoint(xVal, yVal) == ~isNaN(xVal) /\ ~isNaN(yVal)

\* the loop `for (let i = 0; i < len; i++)` after rows 1..i; the field i of
\* a point is a ghost: the row the point was built from
RECURSIVE CollectPoints(_, _, _, _, _)
CollectPoints(dsX, xColumn, dsY, yColumn, i) ==
  IF i = 0 THEN <<>>
  ELSE LET prev == CollectPoints(dsX, xColumn, dsY, yColumn, i - 1)
           xVal == ToNumber(Lookup(dsX.data[i], xColumn))
           yVal == ToNumber(Lookup(dsY.data[i], yColumn))
       IN  IF KeepPoint(xVal, yVal)
           THEN Append(prev, [x |-> xVal, y |-> yVal, i |-> i])
           ELSE prev

\* SeriesData with a loop that stops one row early
SeriesData_ShortLoop(dsX, xColumn, dsY, yColumn) ==
  LET len == MinInt(Len(dsX.data), Len(dsY.data))
  IN  SortByX(CollectPoints(dsX, xColumn, dsY, yColumn,
                            IF len = 0 THEN 0 ELSE len - 1))

\* seriesData of one series whose datasets both exist
SeriesData(dsX, xColumn, dsY, yColumn) ==
  LET len == MinInt(Len(dsX.data), Len(dsY.data))
  IN  SortByX(CollectPoints(dsX, xColumn, dsY, yColumn, len))

\* the element a series is drawn with
ElementOf(type) ==
  IF type = "line" THEN "Line"
  ELSE IF type = "area" THEN "Area"
  ELSE IF type = "bar" THEN "Bar"
  ELSE "Scatter"

\* SeriesElement that draws every series with its own kind
SeriesElement_OwnKind(cfg, col, dsX, dsY) ==
  IF dsX = UndefinedDs \/ dsY = UndefinedDs THEN Thrown
  ELSE [null |-> FALSE, threw |-> FALSE,
        element |-> ElementOf(col.type),
        key |-> col.id,
        yAxisId |-> col.axis,
        data |-> SeriesData(dsX, EffectiveXRef(col, cfg).column, dsY,
                            col.colRef.column),
        name |-> IF col.label # "" THEN col.label
                 ELSE col.colRef.column \o " (" \o dsY.name \o ")",
        color |-> col.color]

\* lines 225-294 of the callback, reached with dsX and dsY; reading .data
\* of undefined throws
SeriesElement(cfg, col, dsX, dsY) ==
  LET type == IF cfg.type = "diagonal" THEN "scatter" ELSE col.type
      activeXRef == EffectiveXRef(col, cfg)
  IN  IF dsX = UndefinedDs \/ dsY = UndefinedDs THEN Thrown
      ELSE [null |-> FALSE, threw |-> FALSE,
            element |-> ElementOf(type),
            key |-> col.id,
            yAxisId |-> col.axis,
            data |-> SeriesData(dsX, activeXRef.column, dsY, col.colRef.column),
            name |-> IF col.label # "" THEN col.label
                     ELSE col.colRef.column \o " (" \o dsY.name \o ")",
            color |-> col.color]

\* BuildSeries without the test `if (!dsX || !dsY) return null`
BuildSeries_NoGuard(dss, cfg, col) ==
  LET activeXRef == EffectiveXRef(col, cfg)
      dsX == FindDataset(dss, activeXRef.fileId)
      dsY == FindDataset(dss, col.colRef.fileId)
  IN  SeriesElement(cfg, col, dsX, dsY)

\* the callback of config.yColumns.map in the JSX: null or one element
BuildSeries(dss, cfg, col) ==
  LET activeXRef == EffectiveXRef(col, cfg)
      dsX == FindDataset(dss, activeXRef.fileId)
      dsY == FindDataset(dss, col.colRef.fileId)
  IN  IF dsX = UndefinedDs \/ dsY = UndefinedDs THEN Null
      ELSE SeriesElement(cfg, col, dsX, dsY)

\* the single-dataset variant of the component: data.map(...).filter(...)
\* .sort(...) over the rows of one table
SeriesDataSingle(data, activeXCol, column) ==
  SortByX(CollectPoints([data |-> data], activeXCol, [data |-> data], column,
                        Len(data)))

\* config.yColumns.some(col => col.axis === 'right')
hasRightAxis(cfg) ==
  \E k \in 1..Len(cfg.yColumns) : cfg.yColumns[k].axis = "right"

\* the y axes in the chart: the left one always, the right one on the
\* condition hasRightAxis && !isDiagonal
RenderedAxes(cfg) ==
  {"left"} \cup (IF hasRightAxis(cfg) /\ cfg.type # "diagonal"
                 THEN {"right"} ELSE {})

\* what one render of the component computes; `threw` tells whether any of
\* the computations threw, `empty` whether the "No datasets loaded"
\* placeholder is returned in place of the chart
RenderView(dss, cfg) ==
  LET n == Len(cfg.yColumns)
      mapped == IF cfg.showMetrics THEN MetricsMapped(dss, cfg) ELSE <<>>
      series == [k \in 1..n |-> BuildSeries(dss, cfg, cfg.yColumns[k])]
  IN  [null |-> FALSE,
       threw |-> \/ DomainThrew(dss, cfg)
                 \/ \E k \in 1..n : ~series[k].null /\ series[k].threw
                 \/ \E k \in 1..Len(mapped) :
                       ~mapped[k].null /\ mapped[k].threw,
       metricsMapped |-> mapped,
       metricsData |-> metricsData(dss, cfg),
       resolved |-> IF cfg.showMetrics
                    THEN [k \in 1..n |->
                            [xData |-> getColumnData(dss,
                                         EffectiveXRef(cfg.yColumns[k], cfg)),
                             yData |-> getColumnData(dss,
                                         cfg.yColumns[k].colRef)]]
                    ELSE <<>>,
       xDomain |-> xDomain(dss, cfg),
       leftDomain |-> LeftAxisDomain(cfg, xDomain(dss, cfg)),
       yAxes |-> RenderedAxes(cfg),
       singleDomain |-> [d \in 1..Len(dss) |-> xDomainSingle(dss[d].data, cfg)],
       scanned |-> DomainScanned(dss, cfg),
       empty |-> Len(dss) = 0,
       series |-> series,
       single |-> [d \in 1..Len(dss) |->
                     [k \in 1..n |->
                        SeriesDataSingle(dss[d].data,
                           EffectiveXRef(cfg.yColumns[k], cfg).column,
                           cfg.yColumns[k].colRef.column)]]]

----------------------------------------------------------------------------
(* Inputs of calculateMetrics *)

NumVals == {NaN, PosInf, NegInf, Int2Num(1), Int2Num(2)}

NumSeqs(m) == UNION {[1..l -> NumVals] : l \in 0..m}

IntSeq(s) == [i \in 1..Len(s) |-> Int2Num(s[i])]

\* the worked examples of the specification (truth, prediction)
Examples ==
  { <<IntSeq(<<5, 5, 5>>), IntSeq(<<1, 2, 3>>)>>,
    <<IntSeq(<<1, 2, 3, 4>>), IntSeq(<<1, 2, 3, 5>>)>>,
    <<IntSeq(<<1, 2, 4>>), IntSeq(<<1, 3, 2>>)>> }

MetricInputs == (NumSeqs(MaxLen) \X NumSeqs(MaxLen)) \cup Examples

NoConfig ==
  [type |-> "general", xColRef |-> [fileId |-> "", column |-> ""],
   yColumns |-> <<>>, showMetrics |-> FALSE]

\* activeChartId = null
NoChartId == "null"

\* App as constructed: no charts, no active chart; the component under
\* study is used on its own
AppIdle ==
  /\ charts = <<>>
  /\ activeChartId = NoChartId
  /\ initializedRef = FALSE
  /\ effectPending = FALSE
  /\ clock = 0
  /\ uuids = 0

\* error = null
NoError == "null"

\* App renders one FileUpload while no dataset is loaded and another one,
\* the compact one, beside the panel once there is a dataset
FileUploadOf(dss) == IF Len(dss) = 0 THEN "full" ELSE "compact"

\* FileUpload as mounted: nothing is read, no message
UploadIdle ==
  /\ mounted = FileUploadOf(datasets)
  /\ loading = FALSE
  /\ error = NoError
  /\ reading = {}

\* neither getNextColor nor a select of the panel is under study
PanelIdle ==
  /\ colorsUsed = <<>>
  /\ nextColor = ""
  /\ optionRef = UndefinedRef
  /\ selectValue = ""
  /\ selectedRef = UndefinedRef

InitMetrics ==
  /\ AppIdle
  /\ \E in \in MetricInputs : xValues = in[1] /\ yValues = in[2]
  /\ calc = Null
  /\ datasets = <<>>
  /\ config = NoConfig
  /\ view = Null
  /\ pc = "idle"
  /\ PanelIdle
  /\ UploadIdle

\* one call calculateMetrics(xValues, yValues, "series", "truth")
Calc ==
  /\ pc = "idle"
  /\ calc' = calculateMetrics(xValues, yValues, "series", "truth")
  /\ pc' = "done"
  /\ UNCHANGED <<xValues, yValues, datasets, config, view, appVars, panelVars,
                 uploadVars>>

NextMetrics == Calc

SpecMetrics == InitMetrics /\ [][NextMetrics]_vars

----------------------------------------------------------------------------
(* What the specification calls a valid pair, and the sums over them *)

\* the positions considered: 1 .. min(len(truth), len(pred))
Considered == 1..MinInt(Len(xValues), Len(yValues))

\* pair i is valid: both truth[i] and pred[i] are finite numbers
ValidPair(i) == isFinite(xValues[i]) /\ isFinite(yValues[i])

ValidIdx == {i \in Considered : ValidPair(i)}

RECURSIVE SumOver(_, _)
SumOver(S, f) ==
  IF S = {} THEN Zero
  ELSE LET i == CHOOSE j \in S : TRUE
       IN  Add(f[i], SumOver(S \ {i}, f))

AbsErr == [i \in ValidIdx |-> Abs(Sub(xValues[i], yValues[i]))]

SqErr ==
  [i \in ValidIdx |->
     Mul(Sub(xValues[i], yValues[i]), Sub(xValues[i], yValues[i]))]

Truth == [i \in ValidIdx |-> xValues[i]]

MeanTruthValid == Div(SumOver(ValidIdx, Truth), Int2Num(Cardinality(ValidIdx)))

SqDev ==
  [i \in ValidIdx |->
     Mul(Sub(xValues[i], MeanTruthValid), Sub(xValues[i], MeanTruthValid))]

SS_res == SumOver(ValidIdx, SqErr)

SS_tot == SumOver(ValidIdx, SqDev)

----------------------------------------------------------------------------
(* C1: a position enters the sums of calculateMetrics, and n, only if both *)
(* truth[i] and pred[i] are finite; a pair with NaN, +Infinity or          *)
(* -Infinity is excluded.                                                   *)
C1_OnlyFinitePairsContribute ==
  (pc = "done" /\ ~calc.null) =>
     /\ calc.used \subseteq ValidIdx
     /\ calc.n = Cardinality(ValidIdx)

(* C2: no result when an input is empty or no valid pair remains; a        *)
(* result reports n = the number of valid pairs, 1 <= n <= min(lengths).   *)
C2_ResultIffValidPairs ==
  pc = "done" =>
     /\ (Len(xValues) = 0 \/ Len(yValues) = 0 \/ ValidIdx = {}) => calc.null
     /\ ~calc.null =>
          /\ calc.n = Cardinality(ValidIdx)
          /\ 1 <= calc.n
          /\ calc.n <= MinInt(Len(xValues), Len(yValues))

(* C3: with at least one valid pair, r2 is exactly 0 when SS_tot over the  *)
(* valid truth values is 0 and 1 - SS_res/SS_tot otherwise.                *)
C3_R2Policy ==
  (pc = "done" /\ ValidIdx # {}) =>
     /\ ~calc.null
     /\ calc.r2 = (IF SS_tot = Zero THEN Zero
                   ELSE Sub(One, Div(SS_res, SS_tot)))

(* C4: with n valid pairs, mae * n is the sum of |truth - pred| and        *)
(* rmse^2 * n the sum of (truth - pred)^2 over the valid pairs.            *)
C4_MaeRmse ==
  (pc = "done" /\ ValidIdx # {}) =>
     /\ ~calc.null
     /\ Mul(calc.mae, Int2Num(Cardinality(ValidIdx))) = SumOver(ValidIdx, AbsErr)
     /\ Mul(Square(calc.rmse), Int2Num(Cardinality(ValidIdx)))
          = SumOver(ValidIdx, SqErr)

\* the same four statements on inputs free of infinities
NoInfinity ==
  /\ \A i \in 1..Len(xValues) : xValues[i].k # "inf"
  /\ \A i \in 1..Len(yValues) : yValues[i].k # "inf"

Aux_C1_NoInf == NoInfinity => C1_OnlyFinitePairsContribute

Aux_C2_NoInf == NoInfinity => C2_ResultIffValidPairs

Aux_C3_NoInf == NoInfinity => C3_R2Policy

Aux_C4_NoInf == NoInfinity => C4_MaeRmse

Aux_Example1 ==
  (pc = "done" /\ xValues = IntSeq(<<5, 5, 5>>) /\ yValues = IntSeq(<<1, 2, 3>>))
     => calc.r2 = Zero /\ calc.n = 3

Aux_Example2 ==
  (pc = "done" /\ xValues = IntSeq(<<1, 2, 3, 4>>)
               /\ yValues = IntSeq(<<1, 2, 3, 5>>))
     => calc.mae = Rat(1, 4) /\ calc.rmse = Rat(1, 2) /\ calc.n = 4

----------------------------------------------------------------------------
(* Inputs of the component: datasets and one chart configuration *)

Row(a, b) == ("a" :> a) @@ ("b" :> b)

\* the parsed files: name, discovered columns, rows
FileA ==
  [name |-> "a.csv", columns |-> <<"a", "b">>,
   data |-> << Row(NumCell(2), NumCell(5)),
               Row(NumCell(1), NumCell(7)),
               Row(NumCell(2), StrCell("3")) >>]

FileB ==
  [name |-> "b.csv", columns |-> <<"a", "b">>,
   data |-> << Row(StrCell("abc"), NumCell(1)),
               Row(NullCell, NumCell(7)),
               Row(NumCell(3), StrCell("Infinity")),
               Row(StrCell("-Infinity"), NumCell(1)),
               ("a" :> NumCell(1)) >>]

FileC ==
  [name |-> "c.csv", columns |-> <<"a", "b">>,
   data |-> << Row(StrCell(""), StrCell("n/a")),
               Row(NumCell(1), NumCell(1)) >>]

NoFile == [name |-> "", columns |-> <<>>, data |-> <<>>]

MkDataset(id, f, color) ==
  [id |-> id, name |-> f.name, data |-> f.data, columns |-> f.columns,
   color |-> color]

Ref(fileId, column) == [fileId |-> fileId, column |-> column]

\* the references a chart's default x is drawn from
ChartXRefs == {Ref("d1", "a"), Ref("d1", "zz")}

\* the references a series' y is drawn from
SeriesYRefs == {Ref("d1", "b"), Ref("d2", "b"), Ref("d2", "zz")}

\* the x overrides of a series
SeriesXRefs == {UndefinedRef, Ref("d2", "a"), Ref("d1", "b")}

MkSeries(k, colRef, xColRef) ==
  [id |-> "y-" \o ToString(k), colRef |-> colRef, xColRef |-> xColRef,
   axis |-> "left", color |-> "#2563eb", type |-> "line", label |-> ""]

SeriesSeqs(m) ==
  UNION { { [k \in 1..l |-> MkSeries(k, c[k][1], c[k][2])] :
              c \in [1..l -> SeriesYRefs \X SeriesXRefs] } : l \in 0..m }

MkConfig(type, xColRef, yColumns, showMetrics) ==
  [id |-> "chart-1", title |-> "Main Chart", type |-> type,
   xColRef |-> xColRef, yColumns |-> yColumns, showGrid |-> TRUE,
   showLegend |-> TRUE, showMetrics |-> showMetrics]

\* datasets d1 and d2, each either loaded from one of the files or not (any
\* more) in the collection
DatasetSeqs ==
  { (IF f1 = NoFile THEN <<>> ELSE <<MkDataset("d1", f1, "#2563eb")>>) \o
    (IF f2 = NoFile THEN <<>> ELSE <<MkDataset("d2", f2, "#dc2626")>>) :
      f1 \in {FileA, FileB, NoFile}, f2 \in {FileB, FileC, NoFile} }

InitView ==
  /\ AppIdle
  /\ datasets \in DatasetSeqs
  /\ \E type \in {"general", "diagonal"}, xColRef \in ChartXRefs,
        yColumns \in SeriesSeqs(MaxSeries), showMetrics \in BOOLEAN :
        config = MkConfig(type, xColRef, yColumns, showMetrics)
  /\ view = Null
  /\ xValues = <<>>
  /\ yValues = <<>>
  /\ calc = Null
  /\ pc = "idle"
  /\ PanelIdle
  /\ UploadIdle

\* one render of ChartVisualizer with props (datasets, config)
Render ==
  /\ pc = "idle"
  /\ view' = RenderView(datasets, config)
  /\ pc' = "done"
  /\ UNCHANGED <<xValues, yValues, calc, datasets, config, appVars, panelVars,
               uploadVars>>

NextView == Render

SpecView == InitView /\ [][NextView]_vars

----------------------------------------------------------------------------
(* Vocabulary of the claims about one render *)

Rendered == pc = "done" /\ ~view.null

SeriesIdx == 1..Len(config.yColumns)

ColumnNames == {"a", "b", "zz"}

Present(fileId) == \E i \in 1..Len(datasets) : datasets[i].id = fileId

\* the dataset of a present id
DatasetOf(fileId) ==
  datasets[CHOOSE i \in 1..Len(datasets) : datasets[i].id = fileId]

XRefOf(k) ==
  IF config.yColumns[k].xColRef # UndefinedRef
  THEN config.yColumns[k].xColRef ELSE config.xColRef

YRefOf(k) == config.yColumns[k].colRef

\* series k uses a reference, as x or as y, whose dataset is not loaded
Dangling(k) == ~Present(XRefOf(k).fileId) \/ ~Present(YRefOf(k).fileId)

\* row i of the dataset a reference points at, read at the reference's column
CellAt(ref, i) == Lookup(DatasetOf(ref.fileId).data[i], ref.column)

\* a cell that is null, a missing key, or a string that is not a number
\* (the empty string is left out: it is neither a numeral nor text)
NotANumberCell(cell) ==
  \/ cell.t \in {"null", "undef"}
  \/ /\ cell.t = "str"
     /\ cell.s \notin (DOMAIN DecimalStrings \cup {"Infinity", "-Infinity", ""})

\* the reference a scanned value came from
ScannedRef(e) ==
  IF e.series = 0 THEN config.xColRef
  ELSE IF e.role = "x" THEN config.yColumns[e.series].xColRef
  ELSE config.yColumns[e.series].colRef

----------------------------------------------------------------------------
(* C5: resolving a column, a cell that is null, an unparseable string or a *)
(* missing key yields NaN at its row (numbers pass through, numeric        *)
(* strings are parsed); such a row is never plotted and never counted in   *)
(* the domain or the metrics.                                              *)
C5_NonNumericCellsAreNaN ==
  /\ Rendered => \A d \in 1..Len(datasets), col \in ColumnNames :
       LET r == getColumnData(datasets, Ref(datasets[d].id, col))
       IN  /\ ~r.null
           /\ Len(r.values) = Len(datasets[d].data)
           /\ \A i \in 1..Len(r.values) :
                LET cell == Lookup(datasets[d].data[i], col)
                IN  /\ NotANumberCell(cell) => isNaN(r.values[i])
                    /\ cell.t = "num" => r.values[i] = Int2Num(cell.n)
                    /\ (cell.t = "str" /\ cell.s \in DOMAIN DecimalStrings)
                         => r.values[i] = Int2Num(DecimalStrings[cell.s])
  /\ Rendered =>
       /\ \A k \in SeriesIdx :
            ~view.series[k].null =>
               \A j \in 1..Len(view.series[k].data) :
                  LET p == view.series[k].data[j]
                  IN  /\ ~NotANumberCell(CellAt(XRefOf(k), p.i))
                      /\ ~NotANumberCell(CellAt(YRefOf(k), p.i))
       /\ \A e \in view.scanned : ~NotANumberCell(CellAt(ScannedRef(e), e.row))
       /\ \A k \in 1..Len(view.metricsMapped) :
            ~view.metricsMapped[k].null =>
               \A i \in view.metricsMapped[k].used :
                  /\ ~NotANumberCell(CellAt(XRefOf(k), i))
                  /\ ~NotANumberCell(CellAt(YRefOf(k), i))

(* C6: a positional pair (x[i], y[i]) is kept iff both components are      *)
(* finite: every output point is finite in x and y, and every pair with    *)
(* both components finite is in the output.                                *)
C6_KeptIffBothFinite ==
  Rendered =>
     /\ \A k \in SeriesIdx :
          ~view.series[k].null =>
             LET data == view.series[k].data
                 len == MinInt(Len(DatasetOf(XRefOf(k).fileId).data),
                               Len(DatasetOf(YRefOf(k).fileId).data))
             IN  /\ \A j \in 1..Len(data) :
                       isFinite(data[j].x) /\ isFinite(data[j].y)
                 /\ \A i \in 1..len :
                       (/\ isFinite(ToNumber(CellAt(XRefOf(k), i)))
                        /\ isFinite(ToNumber(CellAt(YRefOf(k), i))))
                         => \E j \in 1..Len(data) : data[j].i = i
     /\ \A d \in 1..Len(datasets), k \in SeriesIdx :
          \A j \in 1..Len(view.single[d][k]) :
             /\ isFinite(view.single[d][k][j].x)
             /\ isFinite(view.single[d][k][j].y)

\* the two statements with NaN as the only excluded value
Aux_C6_NotNaN ==
  Rendered =>
     \A k \in SeriesIdx :
        ~view.series[k].null =>
           LET data == view.series[k].data
               len == MinInt(Len(DatasetOf(XRefOf(k).fileId).data),
                             Len(DatasetOf(YRefOf(k).fileId).data))
           IN  /\ \A j \in 1..Len(data) :
                     ~isNaN(data[j].x) /\ ~isNaN(data[j].y)
               /\ \A i \in 1..len :
                     (/\ ~isNaN(ToNumber(CellAt(XRefOf(k), i)))
                      /\ ~isNaN(ToNumber(CellAt(YRefOf(k), i))))
                       => \E j \in 1..Len(data) : data[j].i = i

\* the number of rows joined for series k: the shorter of its two datasets
JoinLen(k) ==
  MinInt(Len(DatasetOf(XRefOf(k).fileId).data),
         Len(DatasetOf(YRefOf(k).fileId).data))

(* C7: the points of a series are a positional join: a point built from    *)
(* row i has x from row i of the x dataset and y from row i of the y       *)
(* dataset, i ranges over the first min(rows of x, rows of y) rows, each   *)
(* row gives at most one point, every such row that passes the filter      *)
(* gives one, and rows beyond that length give none.                       *)
C7_PositionalJoin ==
  Rendered =>
     \A k \in SeriesIdx :
        ~view.series[k].null =>
           LET data == view.series[k].data
           IN  /\ Len(data) <= JoinLen(k)
               /\ \A j \in 1..Len(data) :
                     /\ data[j].i \in 1..JoinLen(k)
                     /\ data[j].x = ToNumber(CellAt(XRefOf(k), data[j].i))
                     /\ data[j].y = ToNumber(CellAt(YRefOf(k), data[j].i))
               /\ \A j1, j2 \in 1..Len(data) :
                     data[j1].i = data[j2].i => j1 = j2
               /\ \A i \in 1..JoinLen(k) :
                     KeepPoint(ToNumber(CellAt(XRefOf(k), i)),
                               ToNumber(CellAt(YRefOf(k), i)))
                       => \E j \in 1..Len(data) : data[j].i = i

\* a cross-dataset series whose datasets differ in length (5 rows against
\* 3) and whose last joined row gives a point
C7_Witness ==
  /\ Rendered
  /\ \E k \in SeriesIdx :
        /\ ~view.series[k].null
        /\ XRefOf(k).fileId # YRefOf(k).fileId
        /\ Len(DatasetOf(XRefOf(k).fileId).data) = 5
        /\ Len(DatasetOf(YRefOf(k).fileId).data) = 3
        /\ \E j \in 1..Len(view.series[k].data) :
              view.series[k].data[j].i = 3

\* x of p is not greater than x of q
LeqX(p, q) == ~Lt(q.x, p.x)

\* ascending in x, and equal x in the order of the source rows
SortedStable(data) ==
  \A j1, j2 \in 1..Len(data) :
     j1 < j2 =>
        /\ LeqX(data[j1], data[j2])
        /\ data[j1].x = data[j2].x => data[j1].i < data[j2].i

(* C8: the points of every built series are in ascending order of x, and   *)
(* points with equal x are in the order of their source rows (both         *)
(* variants of the component).                                             *)
C8_SortedByXStable ==
  Rendered =>
     /\ \A k \in SeriesIdx :
          ~view.series[k].null => SortedStable(view.series[k].data)
     /\ \A d \in 1..Len(datasets), k \in SeriesIdx :
          SortedStable(view.single[d][k])

\* a series with two points of equal x, and a point that the sort moved in
\* front of a point of an earlier row
C8_Witness ==
  /\ Rendered
  /\ \E k \in SeriesIdx :
        /\ ~view.series[k].null
        /\ \E j1, j2 \in 1..Len(view.series[k].data) :
              /\ j1 < j2
              /\ view.series[k].data[j1].x = view.series[k].data[j2].x
              /\ view.series[k].data[j1].y # view.series[k].data[j2].y
        /\ \E j1, j2 \in 1..Len(view.series[k].data) :
              /\ j1 < j2
              /\ view.series[k].data[j1].i > view.series[k].data[j2].i

\* the chart with series k alone
ConfigOnly(k) == [config EXCEPT !.yColumns = <<config.yColumns[k]>>]

\* series k is drawn, and measured, as it is when it is the only series
AsUsual(k) ==
  /\ ~view.series[k].null
  /\ ~view.series[k].threw
  /\ view.series[k] = RenderView(datasets, ConfigOnly(k)).series[1]
  /\ config.showMetrics =>
       view.metricsMapped[k] = RenderView(datasets, ConfigOnly(k)).metricsMapped[1]

\* the entries of the metrics list are the non-null results, in series order
MetricsListMatches ==
  Len(view.metricsData)
    = Cardinality({k \in 1..Len(view.metricsMapped) : ~view.metricsMapped[k].null})

\* a series with a dangling reference draws nothing and has no metrics
DanglingIsEmpty(k) ==
  /\ view.series[k].null
  /\ config.showMetrics => view.metricsMapped[k].null

(* C9 as stated: a reference to a dataset that is not loaded never causes  *)
(* a failure; the series that uses it has no points, no metrics entry and  *)
(* contributes no value to the x-domain scan; the other series are         *)
(* computed as usual.                                                      *)
C9_DanglingSeriesContributesNothing ==
  Rendered =>
     /\ ~view.threw
     /\ MetricsListMatches
     /\ \A k \in SeriesIdx :
          IF Dangling(k)
          THEN /\ DanglingIsEmpty(k)
               /\ \A e \in view.scanned : e.series # k
          ELSE AsUsual(k)

(* C9 amended: a reference to a dataset that is not loaded never causes a  *)
(* failure; the series that uses it has no points and no metrics entry,    *)
(* and the dangling reference itself contributes no value to the x-domain  *)
(* scan (every scanned value comes from a reference whose dataset is       *)
(* loaded; the other reference of the same series is scanned when it       *)
(* resolves); the other series are computed as usual.                      *)
C9_DanglingRefDegrades ==
  Rendered =>
     /\ ~view.threw
     /\ MetricsListMatches
     /\ \A e \in view.scanned : Present(ScannedRef(e).fileId)
     /\ \A k \in SeriesIdx :
          IF Dangling(k) THEN DanglingIsEmpty(k) ELSE AsUsual(k)

\* metrics are on; one series has a dangling y and an x override that was
\* scanned, the chart default dangles too, and another series has points
\* and a metrics entry
C9_Witness ==
  /\ Rendered
  /\ config.showMetrics
  /\ ~Present(config.xColRef.fileId)
  /\ \E k, j \in SeriesIdx :
        /\ Dangling(k)
        /\ ~Present(YRefOf(k).fileId)
        /\ view.series[k].null
        /\ \E e \in view.scanned : e.series = k
        /\ ~Dangling(j)
        /\ Len(view.series[j].data) > 0
        /\ ~view.metricsMapped[j].null
        /\ Len(view.metricsData) = 1

(* C10: for a dataset D and a reference whose dataset id is D's id         *)
(* (whether or not the column exists in D) the resolved values are as many *)
(* as D has rows, entry i is Number(row i [column]), and the label is the  *)
(* raw column name.                                                        *)
C10_ResolvedColumnAligned ==
  Rendered =>
     \A k \in 1..Len(view.resolved) :
        /\ Present(XRefOf(k).fileId) =>
             LET r == view.resolved[k].xData
                 D == DatasetOf(XRefOf(k).fileId)
             IN  /\ ~r.null
                 /\ Len(r.values) = Len(D.data)
                 /\ \A i \in 1..Len(D.data) :
                       r.values[i] = ToNumber(Lookup(D.data[i], XRefOf(k).column))
                 /\ r.name = XRefOf(k).column
        /\ Present(YRefOf(k).fileId) =>
             LET r == view.resolved[k].yData
                 D == DatasetOf(YRefOf(k).fileId)
             IN  /\ ~r.null
                 /\ Len(r.values) = Len(D.data)
                 /\ \A i \in 1..Len(D.data) :
                       r.values[i] = ToNumber(Lookup(D.data[i], YRefOf(k).column))
                 /\ r.name = YRefOf(k).column

\* a column that the dataset does not have was resolved, and so was a
\* column with a cell that is not a number, both over several rows
C10_Witness ==
  /\ Rendered
  /\ \E k \in 1..Len(view.resolved) :
        /\ Present(YRefOf(k).fileId)
        /\ \A c \in 1..Len(DatasetOf(YRefOf(k).fileId).columns) :
              DatasetOf(YRefOf(k).fileId).columns[c] # YRefOf(k).column
        /\ Len(view.resolved[k].yData.values) >= 2
        /\ Present(XRefOf(k).fileId)
        /\ Len(view.resolved[k].xData.values) = 5
        /\ \E i \in 1..5 : isNaN(view.resolved[k].xData.values[i])

----------------------------------------------------------------------------
(* Inputs of the domain computation: columns of equal values, a column with *)
(* a range, columns with infinities and with text                           *)

FileTen ==
  [name |-> "ten.csv", columns |-> <<"a", "b">>,
   data |-> << Row(NumCell(10), NumCell(0)),
               Row(NumCell(10), NumCell(100)),
               ("a" :> NumCell(10)) >>]

FileInf ==
  [name |-> "inf.csv", columns |-> <<"a", "b">>,
   data |-> << Row(StrCell("Infinity"), NumCell(3)),
               Row(StrCell("Infinity"), StrCell("-Infinity")) >>]

FileText ==
  [name |-> "text.csv", columns |-> <<"a", "b">>,
   data |-> << Row(StrCell("abc"), NumCell(7)) >>]

DomainDatasetSeqs ==
  { (IF f1 = NoFile THEN <<>> ELSE <<MkDataset("d1", f1, "#2563eb")>>) \o
    (IF f2 = NoFile THEN <<>> ELSE <<MkDataset("d2", f2, "#dc2626")>>) :
      f1 \in {FileTen, FileInf, FileText, NoFile},
      f2 \in {FileTen, FileInf, NoFile} }

InitDomain ==
  /\ AppIdle
  /\ datasets \in DomainDatasetSeqs
  /\ \E type \in {"general", "diagonal"}, xColRef \in ChartXRefs,
        yColumns \in SeriesSeqs(MaxSeries), showMetrics \in BOOLEAN :
        config = MkConfig(type, xColRef, yColumns, showMetrics)
  /\ view = Null
  /\ xValues = <<>>
  /\ yValues = <<>>
  /\ calc = Null
  /\ pc = "idle"
  /\ PanelIdle
  /\ UploadIdle

SpecDomain == InitDomain /\ [][NextView]_vars

----------------------------------------------------------------------------
(* Vocabulary of the claims about the x-domain *)

IsDiagonal == config.type = "diagonal"

\* the references the domain is about: the chart default, every override
\* and, for a diagonal chart, every y reference
DomainRefs ==
  {config.xColRef}
  \cup ({config.yColumns[k].xColRef : k \in SeriesIdx} \ {UndefinedRef})
  \cup (IF IsDiagonal THEN {YRefOf(k) : k \in SeriesIdx} ELSE {})

\* the numbers the cells of a reference coerce to (none if dangling)
ValuesOf(ref) ==
  IF Present(ref.fileId)
  THEN {ToNumber(CellAt(ref, i)) :
          i \in 1..Len(DatasetOf(ref.fileId).data)}
  ELSE {}

ObservedFinite == {v \in UNION {ValuesOf(r) : r \in DomainRefs} : isFinite(v)}

\* the same for the single-dataset variant on the table of dataset d
ObservedFiniteSingle(d) ==
  {v \in {ToNumber(Lookup(datasets[d].data[i], r.column)) :
            i \in 1..Len(datasets[d].data), r \in DomainRefs} : isFinite(v)}

MinOf(S) == CHOOSE m \in S : \A v \in S : ~Lt(v, m)

MaxOf(S) == CHOOSE m \in S : \A v \in S : ~Lt(m, v)

\* the padded pair for minimum m and maximum M
Padded(m, M) ==
  IF Sub(M, m) = Zero
  THEN [auto |-> FALSE, min |-> Sub(m, One), max |-> Add(M, One)]
  ELSE [auto |-> FALSE,
        min |-> Sub(m, Div(Mul(Int2Num(5), Sub(M, m)), Int2Num(100))),
        max |-> Add(M, Div(Mul(Int2Num(5), Sub(M, m)), Int2Num(100)))]

NoInfiniteCell ==
  \A d \in 1..Len(datasets) : \A i \in 1..Len(datasets[d].data) :
    \A c \in DOMAIN datasets[d].data[i] :
      ToNumber(datasets[d].data[i][c]).k # "inf"

----------------------------------------------------------------------------
(* C11: with m and M the minimum and maximum of the finite values the scan *)
(* meets, the x-domain is (m - 1, M + 1) when M = m and                     *)
(* (m - 0.05 (M - m), M + 0.05 (M - m)) otherwise.                          *)

C11_PaddedDomain ==
  (Rendered /\ ObservedFinite # {})
     => view.xDomain = Padded(MinOf(ObservedFinite), MaxOf(ObservedFinite))

\* the same on tables without infinite cells
Aux_C11_NoInf == NoInfiniteCell => C11_PaddedDomain

\* [10, 10, 10] gives (9, 11) and [0, 100] gives (-5, 105)
Aux_C11_Examples ==
  Rendered =>
    /\ (\A v \in UNION {ValuesOf(r) : r \in DomainRefs} : v = Int2Num(10))
         /\ ObservedFinite # {}
         => view.xDomain = [auto |-> FALSE, min |-> Int2Num(9),
                            max |-> Int2Num(11)]
    /\ UNION {ValuesOf(r) : r \in DomainRefs}
         = {Int2Num(0), Int2Num(100), NaN}
         => view.xDomain = [auto |-> FALSE, min |-> Int2Num(-5),
                            max |-> Int2Num(105)]

\* a render whose scan met the values 0 and 100 only
Aux_C11_ExampleState ==
  /\ Rendered
  /\ ObservedFinite = {Int2Num(0), Int2Num(100)}
  /\ view.xDomain = [auto |-> FALSE, min |-> Int2Num(-5),
                     max |-> Int2Num(105)]

----------------------------------------------------------------------------
(* C12: the x-domain is "auto" exactly when the scan over all active       *)
(* references meets no finite value (no dataset, all references dangling,   *)
(* all cells non-numeric); otherwise it is a (min, max) pair. The same for  *)
(* the single-dataset variant on its table.                                 *)

C12_AutoIffNoFinite ==
  Rendered =>
    /\ view.xDomain.auto <=> ObservedFinite = {}
    /\ \A d \in 1..Len(datasets) :
         view.singleDomain[d].auto <=> ObservedFiniteSingle(d) = {}

\* the multi-dataset variant on tables without infinite cells
Aux_C12_NoInf ==
  (Rendered /\ NoInfiniteCell) => (view.xDomain.auto <=> ObservedFinite = {})

----------------------------------------------------------------------------
(* C13: an x-domain that is not "auto" is a pair of finite numbers with    *)
(* min < max, whatever the cells hold, cells that coerce to an infinity     *)
(* included.                                                                *)

C13_DomainFiniteOrdered ==
  (Rendered /\ ~view.xDomain.auto)
     => /\ isFinite(view.xDomain.min)
        /\ isFinite(view.xDomain.max)
        /\ Lt(view.xDomain.min, view.xDomain.max)

Aux_C13_NoInf == NoInfiniteCell => C13_DomainFiniteOrdered

----------------------------------------------------------------------------
(* C14: on a diagonal chart the y values of every series are part of the   *)
(* scan: the domain is a pair that covers every finite y value, also when   *)
(* no x value is finite; on a general chart no y value is scanned. The      *)
(* same for the single-dataset variant on its table.                        *)

Covers(dom, v) == ~dom.auto /\ ~Lt(v, dom.min) /\ ~Lt(dom.max, v)

C14_MultiFoldsY ==
  Rendered =>
    /\ IsDiagonal =>
         \A k \in SeriesIdx : \A v \in ValuesOf(YRefOf(k)) :
           isFinite(v) => Covers(view.xDomain, v)
    /\ ~IsDiagonal => \A e \in view.scanned : e.role = "x"

C14_SingleFoldsY ==
  (Rendered /\ IsDiagonal) =>
    \A d \in 1..Len(datasets) : \A k \in SeriesIdx :
      \A i \in 1..Len(datasets[d].data) :
        LET v == ToNumber(Lookup(datasets[d].data[i], YRefOf(k).column))
        IN  isFinite(v) => Covers(view.singleDomain[d], v)

C14_DiagonalFoldsY == C14_MultiFoldsY /\ C14_SingleFoldsY

----------------------------------------------------------------------------
(* C16: the effective x reference of a series is its own override when it  *)
(* has one, the chart default otherwise; the plotted points and the truth   *)
(* column of the metrics both read that reference, and the domain scan      *)
(* reads the chart default and every override.                              *)

\* the references the scan has to read as x: the default and the overrides
XRefsToScan ==
  {config.xColRef}
  \cup ({config.yColumns[k].xColRef : k \in SeriesIdx} \ {UndefinedRef})

C16_EffectiveXRef ==
  Rendered =>
    /\ \A k \in SeriesIdx :
         /\ (~view.series[k].null /\ ~view.series[k].threw) =>
              \A j \in 1..Len(view.series[k].data) :
                view.series[k].data[j].x
                  = ToNumber(CellAt(XRefOf(k), view.series[k].data[j].i))
         /\ config.showMetrics =>
              /\ view.resolved[k].xData.null <=> ~Present(XRefOf(k).fileId)
              /\ ~view.resolved[k].xData.null =>
                   /\ view.resolved[k].xData.name = XRefOf(k).column
                   /\ view.resolved[k].xData.values
                        = [i \in 1..Len(DatasetOf(XRefOf(k).fileId).data) |->
                             ToNumber(CellAt(XRefOf(k), i))]
              /\ ~view.metricsMapped[k].null =>
                   view.metricsMapped[k].xName = XRefOf(k).column
    /\ \A r \in XRefsToScan :
         Present(r.fileId) =>
           \A i \in 1..Len(DatasetOf(r.fileId).data) :
             ~isNaN(ToNumber(CellAt(r, i))) =>
               \E e \in view.scanned :
                 e.role = "x" /\ e.row = i /\ ScannedRef(e) = r

\* a chart with metrics where one series plots points read through its
\* override and another plots points read through the chart default
C16_Witness ==
  /\ Rendered
  /\ config.showMetrics
  /\ \E k1, k2 \in SeriesIdx :
       /\ config.yColumns[k1].xColRef # UndefinedRef
       /\ config.yColumns[k1].xColRef # config.xColRef
       /\ config.yColumns[k2].xColRef = UndefinedRef
       /\ \A k \in {k1, k2} :
            /\ ~view.series[k].null
            /\ Len(view.series[k].data) > 0
            /\ ~view.metricsMapped[k].null
       /\ view.resolved[k1].xData.values # view.resolved[k2].xData.values

----------------------------------------------------------------------------
(* C17: the metrics list is empty when showMetrics is off; when it is on   *)
(* it holds, in series order, exactly one entry for each series whose x     *)
(* and y datasets both exist and that has at least one valid pair, and no   *)
(* entry for any other series.                                              *)

\* a row, within the shorter of the two columns, where x and y are finite
HasValidPair(k) ==
  \E i \in 1..JoinLen(k) :
    /\ isFinite(ToNumber(CellAt(XRefOf(k), i)))
    /\ isFinite(ToNumber(CellAt(YRefOf(k), i)))

MeasuredSeries == {k \in SeriesIdx : ~Dangling(k) /\ HasValidPair(k)}

\* the j-th smallest element of a set of indices
KthOf(S, j) == CHOOSE k \in S : Cardinality({m \in S : m <= k}) = j

C17_MetricsList ==
  Rendered =>
    /\ ~config.showMetrics => view.metricsData = <<>>
    /\ config.showMetrics =>
         /\ Len(view.metricsData) = Cardinality(MeasuredSeries)
         /\ \A j \in 1..Cardinality(MeasuredSeries) :
              /\ ~view.metricsMapped[KthOf(MeasuredSeries, j)].null
              /\ j <= Len(view.metricsData) =>
                   view.metricsData[j]
                     = view.metricsMapped[KthOf(MeasuredSeries, j)]

Aux_C17_NoInf == NoInfiniteCell => C17_MetricsList

----------------------------------------------------------------------------
(* colorUtils *)

CHART_COLORS ==
  << "#2563eb", "#dc2626", "#16a34a", "#d97706", "#9333ea",
     "#0891b2", "#db2777", "#4f46e5", "#ca8a04", "#059669" >>

\* the multiplier of Math.random() in the fallback
RandomScale == 16777215

HexDigits == "0123456789abcdef"

\* n.toString(16) for an integer n >= 0: no leading zeros
RECURSIVE ToHex(_)
ToHex(n) ==
  IF n < 16 THEN SubSeq(HexDigits, n + 1, n + 1)
  ELSE ToHex(n \div 16) \o SubSeq(HexDigits, (n % 16) + 1, (n % 16) + 1)

\* values of Math.floor(Math.random() * 16777215): the least, the greatest,
\* the ends of the five- and six-digit ranges, 0xff, a palette colour
\* (0x2563eb) and 0xa1b2c3
RandomDraws ==
  {0, 255, 1048575, 1048576, 2450411, 10597059, RandomScale - 1}

\* getNextColor that takes the last free palette entry
getNextColor_Last(usedColors, random) ==
  LET available ==
        SelectSeq(CHART_COLORS,
                  LAMBDA c : \A i \in 1..Len(usedColors) : usedColors[i] # c)
  IN  IF Len(available) > 0 THEN available[Len(available)]
      ELSE "#" \o ToHex(random)

\* `random` is Math.floor(Math.random() * 16777215)
getNextColor(usedColors, random) ==
  LET available ==
        SelectSeq(CHART_COLORS,
                  LAMBDA c : \A i \in 1..Len(usedColors) : usedColors[i] # c)
  IN  IF Len(available) > 0 THEN available[1] ELSE "#" \o ToHex(random)

\* the palette entries at the positions S, in palette order
PaletteSeq(S) ==
  SelectSeq(CHART_COLORS, LAMBDA c : \E i \in S : CHART_COLORS[i] = c)

Reverse(seq) == [i \in 1..Len(seq) |-> seq[Len(seq) + 1 - i]]

\* the colours of the series of a chart: any part of the palette, in
\* palette order, or in reverse order, or around a colour picked by hand
\* and with one entry repeated
ColorInputs ==
  UNION { { PaletteSeq(S),
            Reverse(PaletteSeq(S)),
            <<"#000000">> \o PaletteSeq(S) \o
              (IF S = {} THEN <<>> ELSE <<PaletteSeq(S)[1]>>) } :
          S \in SUBSET (1..Len(CHART_COLORS)) }

InitColor ==
  /\ AppIdle
  /\ colorsUsed \in ColorInputs
  /\ nextColor = ""
  /\ optionRef = UndefinedRef
  /\ selectValue = ""
  /\ selectedRef = UndefinedRef
  /\ xValues = <<>>
  /\ yValues = <<>>
  /\ calc = Null
  /\ datasets = <<>>
  /\ config = NoConfig
  /\ view = Null
  /\ pc = "idle"
  /\ UploadIdle

\* one call getNextColor(colorsUsed)
GetNextColor ==
  /\ pc = "idle"
  /\ \E random \in RandomDraws :
       nextColor' = getNextColor(colorsUsed, random)
  /\ pc' = "done"
  /\ UNCHANGED <<xValues, yValues, calc, datasets, config, view, appVars,
                 colorsUsed, optionRef, selectValue, selectedRef, uploadVars>>

NextColor == GetNextColor

SpecColor == InitColor /\ [][NextColor]_vars

----------------------------------------------------------------------------
(* App: createDefaultChart, handleDataLoaded, removeDataset, updateChart *)

\* a column that find() did not find, or an index past the end
UndefinedColumn == "undefined"

\* the column names of the files that /date|time|index|id|year/i matches
HintedColumns == {"year", "Time", "id"}

MatchesXHint(c) == c \in HintedColumns

\* Array.prototype.find on a list of column names; idx holds the positions
\* whose column satisfies the test
FindColumn(cols, idx) ==
  IF idx = {} THEN UndefinedColumn
  ELSE cols[CHOOSE i \in idx : \A j \in idx : i <= j]

\* cols[i] with i counted from 0
ColumnAt(cols, i) == IF i + 1 <= Len(cols) THEN cols[i + 1] ELSE UndefinedColumn

\* a || b on column names
OrColumn(a, b) == IF a # UndefinedColumn /\ a # "" THEN a ELSE b

\* ds.data.slice(0, 5)
SampleRows == 5

isNumeric(ds, col) ==
  \E i \in 1..MinInt(SampleRows, Len(ds.data)) :
    LET val == Lookup(ds.data[i], col)
    IN  \/ val.t = "num"
        \/ ~isNaN(ToNumber(val)) /\ val # StrCell("") /\ val.t # "null"

\* `id` is the identifier randomUUID returns
createDefaultChart(ds, title, id) ==
  LET cols == ds.columns
      xCol == OrColumn(FindColumn(cols, {i \in 1..Len(cols) :
                                           MatchesXHint(cols[i])}),
                       ColumnAt(cols, 0))
      otherCols == SelectSeq(cols, LAMBDA c : c # xCol)
      defaultY ==
        OrColumn(FindColumn(otherCols, {i \in 1..Len(otherCols) :
                                          isNumeric(ds, otherCols[i])}),
                 OrColumn(ColumnAt(otherCols, 0), ColumnAt(cols, 1)))
  IN  [id |-> id, title |-> title, type |-> "general",
       xColRef |-> Ref(ds.id, xCol),
       yColumns |->
         IF defaultY # UndefinedColumn /\ defaultY # ""
         THEN << [id |-> "y-1", colRef |-> Ref(ds.id, defaultY),
                  xColRef |-> UndefinedRef, axis |-> "left",
                  color |-> ds.color, type |-> "line", label |-> ""] >>
         ELSE <<>>,
       showGrid |-> TRUE, showLegend |-> TRUE, showMetrics |-> FALSE]

\* name.lastIndexOf(ch), searched from position i (counted from 1) down;
\* the result is counted from 0
RECURSIVE LastIndexOf(_, _, _)
LastIndexOf(str, ch, i) ==
  IF i = 0 THEN -1
  ELSE IF SubSeq(str, i, i) = ch THEN i - 1
  ELSE LastIndexOf(str, ch, i - 1)

\* exists(n)
NameExists(prev, n) == \E i \in 1..Len(prev) : prev[i].name = n

\* the body of the while loop: the candidate built from the name as loaded
Renamed(name, counter) ==
  LET lastDotIndex == LastIndexOf(name, ".", Len(name))
  IN  IF lastDotIndex # -1
      THEN SubSeq(name, 1, lastDotIndex) \o " (" \o ToString(counter) \o ")"
             \o SubSeq(name, lastDotIndex + 1, Len(name))
      ELSE name \o " (" \o ToString(counter) \o ")"

\* while (exists(uniqueName)) { ...; counter++ }: the name and the counter
\* the loop ends with
RECURSIVE UniqueNameLoop(_, _, _, _)
UniqueNameLoop(prev, name, uniqueName, counter) ==
  IF NameExists(prev, uniqueName)
  THEN UniqueNameLoop(prev, name, Renamed(name, counter), counter + 1)
  ELSE [uniqueName |-> uniqueName, counter |-> counter]

\* handleDataLoaded that stores the name as loaded
handleDataLoaded_KeepName(prev, loadedData, loadedColumns, name, id) ==
  Append(prev,
         [id |-> id, name |-> name, data |-> loadedData,
          columns |-> loadedColumns,
          color |-> CHART_COLORS[(Len(prev) % Len(CHART_COLORS)) + 1]])

\* the updater passed to setDatasets; `id` is what randomUUID returns
handleDataLoaded(prev, loadedData, loadedColumns, name, id) ==
  Append(prev,
         [id |-> id,
          name |-> UniqueNameLoop(prev, name, name, 1).uniqueName,
          data |-> loadedData,
          columns |-> loadedColumns,
          color |-> CHART_COLORS[(Len(prev) % Len(CHART_COLORS)) + 1]])

\* the updater passed to setDatasets
removeDataset(prev, id) == SelectSeq(prev, LAMBDA d : d.id # id)

\* { ...c, ...updates }
Merge(rec, updates) ==
  [f \in DOMAIN rec \cup DOMAIN updates |->
     IF f \in DOMAIN updates THEN updates[f] ELSE rec[f]]

\* the updater passed to setCharts
updateChart(prev, id, updates) ==
  [i \in 1..Len(prev) |->
     IF prev[i].id = id THEN Merge(prev[i], updates) ELSE prev[i]]

\* charts.find(...) that found nothing
UndefinedChart == [id |-> "undefined"]

\* charts.find(c => c.id === id)
FindChart(chs, id) ==
  LET idx == {i \in 1..Len(chs) : chs[i].id = id}
  IN  IF idx = {} THEN UndefinedChart
      ELSE chs[CHOOSE i \in idx : \A j \in idx : i <= j]

\* ConfigPanel: activeChart
activeChart == FindChart(charts, activeChartId)

\* the n-th identifier randomUUID returns
Uuid(n) == "uuid-" \o ToString(n)

\* the chart the effect creates; the identifier createDefaultChart drew is
\* overwritten at once
InitialChart(dss) ==
  [createDefaultChart(dss[1], "Main Chart", Uuid(0)) EXCEPT !.id = "chart-1"]

----------------------------------------------------------------------------
(* ConfigPanel: the values of the column selects *)

\* toSelectValue(ref); UndefinedRef is the absent reference
toSelectValue(ref) ==
  IF ref = UndefinedRef THEN "" ELSE ref.fileId \o "::" \o ref.column

\* str.indexOf(sep, from), positions counted from 1; 0 when there is none
RECURSIVE IndexOf(_, _, _)
IndexOf(str, sep, from) ==
  IF from + Len(sep) - 1 > Len(str) THEN 0
  ELSE IF SubSeq(str, from, from + Len(sep) - 1) = sep THEN from
  ELSE IndexOf(str, sep, from + 1)

\* str.split(sep) for a separator that is not empty
RECURSIVE Split(_, _)
Split(str, sep) ==
  LET p == IndexOf(str, sep, 1)
  IN  IF p = 0 THEN <<str>>
      ELSE <<SubSeq(str, 1, p - 1)>> \o
           Split(SubSeq(str, p + Len(sep), Len(str)), sep)

\* fromSelectValue(val): const [fileId, column] = val.split('::')
fromSelectValue(val) ==
  IF val = "" THEN UndefinedRef
  ELSE LET parts == Split(val, "::")
       IN  [fileId |-> parts[1],
            column |-> IF Len(parts) >= 2 THEN parts[2] ELSE UndefinedColumn]

\* the headers a file may have
HeaderNames == {"a", "b", "year", "a:b", "x::y", "::", "x::", "::y", "a b"}

\* the references renderColumnOptions offers, and "Use Default"
OptionRefs ==
  {Ref(Uuid(n), c) : n \in 1..MaxUuids + 2, c \in HeaderNames}
    \cup {UndefinedRef}

InitSelect ==
  /\ AppIdle
  /\ colorsUsed = <<>>
  /\ nextColor = ""
  /\ optionRef \in OptionRefs
  /\ selectValue = ""
  /\ selectedRef = UndefinedRef
  /\ xValues = <<>>
  /\ yValues = <<>>
  /\ calc = Null
  /\ datasets = <<>>
  /\ config = NoConfig
  /\ view = Null
  /\ pc = "idle"
  /\ UploadIdle

\* the option of the reference is picked: the select holds its value,
\* `${ds.id}::${col}`, which is also toSelectValue of the reference
PickOption ==
  /\ pc = "idle"
  /\ selectValue' = toSelectValue(optionRef)
  /\ pc' = "picked"
  /\ UNCHANGED <<xValues, yValues, calc, datasets, config, view, appVars,
                 colorsUsed, nextColor, optionRef, selectedRef, uploadVars>>

\* onChange: fromSelectValue(e.target.value)
OnChange ==
  /\ pc = "picked"
  /\ selectedRef' = fromSelectValue(selectValue)
  /\ pc' = "done"
  /\ UNCHANGED <<xValues, yValues, calc, datasets, config, view, appVars,
                 colorsUsed, nextColor, optionRef, selectValue, uploadVars>>

NextSelect == PickOption \/ OnChange

SpecSelect == InitSelect /\ [][NextSelect]_vars

----------------------------------------------------------------------------
(* App and ConfigPanel: the handlers.  A state change is followed by a     *)
(* render, and the render by the effect, before the next event is handled;  *)
(* `config` and `view` hold what ChartVisualizer computes for the chart     *)
(* being configured (none while no dataset is loaded: App then shows the    *)
(* upload area only).                                                       *)

\* a state change makes the last render stale
Invalidate == config' = NoConfig /\ view' = Null /\ pc' = "idle"

\* the state changed and there is a chart to render
RenderDue ==
  /\ pc = "idle"
  /\ Len(datasets) > 0
  /\ FindChart(charts, activeChartId) # UndefinedChart

\* the render of ChartVisualizer for the chart being configured
RenderActive ==
  /\ RenderDue
  /\ config' = FindChart(charts, activeChartId)
  /\ view' = RenderView(datasets, FindChart(charts, activeChartId))
  /\ pc' = "done"
  /\ UNCHANGED <<datasets, appVars, xValues, yValues, calc, panelVars,
                 uploadVars>>

\* Rerender that reverses the rows of every dataset in place
Rerender_ReversingRows ==
  /\ pc = "done"
  /\ Len(datasets) > 0
  /\ FindChart(charts, activeChartId) # UndefinedChart
  /\ datasets' = [d \in 1..Len(datasets) |->
                    [datasets[d] EXCEPT !.data =
                       [i \in 1..Len(@) |-> @[Len(@) + 1 - i]]]]
  /\ config' = FindChart(charts, activeChartId)
  /\ view' = RenderView(datasets', FindChart(charts, activeChartId))
  /\ UNCHANGED <<pc, appVars, xValues, yValues, calc, panelVars,
                 uploadVars>>

\* React calls ChartVisualizer again with the datasets and the chart it
\* was last called with (App rendered again)
Rerender ==
  /\ pc = "done"
  /\ Len(datasets) > 0
  /\ FindChart(charts, activeChartId) # UndefinedChart
  /\ config' = FindChart(charts, activeChartId)
  /\ view' = RenderView(datasets, FindChart(charts, activeChartId))
  /\ UNCHANGED <<pc, datasets, appVars, xValues, yValues, calc, panelVars,
                 uploadVars>>

\* the controls of ConfigPanel and the chart grid exist, and neither a
\* render nor the effect of an earlier render is still to run
PanelShown == ~RenderDue /\ ~effectPending /\ Len(datasets) > 0

DatasetIds == {datasets[i].id : i \in 1..Len(datasets)}

ChartIds == {charts[i].id : i \in 1..Len(charts)}

\* FileUpload calls onDataLoaded(jsonData, columns, file.name); several
\* files of one batch may be loaded before the effect runs
HandleDataLoaded(f) ==
  /\ uuids < MaxUuids
  /\ datasets' = handleDataLoaded(datasets, f.data, f.columns, f.name,
                                  Uuid(uuids + 1))
  /\ uuids' = uuids + 1
  /\ effectPending' = TRUE
  /\ UNCHANGED <<charts, activeChartId, initializedRef, clock,
                 xValues, yValues, calc,
                 panelVars, uploadVars>>
  /\ Invalidate

\* InitEffect that does not consult initializedRef
InitEffect_EveryLoad ==
  /\ ~RenderDue
  /\ effectPending
  /\ effectPending' = FALSE
  /\ IF Len(datasets) = 0
     THEN /\ initializedRef' = FALSE
          /\ UNCHANGED <<charts, activeChartId>>
     ELSE /\ charts' = <<InitialChart(datasets)>>
          /\ activeChartId' = InitialChart(datasets).id
          /\ initializedRef' = TRUE
  /\ mounted' = FileUploadOf(datasets)
  /\ IF mounted' # mounted
     THEN loading' = FALSE /\ error' = NoError
     ELSE UNCHANGED <<loading, error>>
  /\ UNCHANGED <<datasets, clock, uuids, xValues, yValues, calc,
                 panelVars, reading>>
  /\ Invalidate

\* the commit of the render that follows a change of the datasets, which
\* swaps the FileUpload when the collection became empty or stopped being
\* empty (the new one starts with fresh state), and then
\* useEffect(..., [datasets])
InitEffect ==
  /\ ~RenderDue
  /\ effectPending
  /\ effectPending' = FALSE
  /\ IF Len(datasets) = 0
     THEN /\ initializedRef' = FALSE
          /\ UNCHANGED <<charts, activeChartId>>
     ELSE IF ~initializedRef
     THEN /\ charts' = <<InitialChart(datasets)>>
          /\ activeChartId' = InitialChart(datasets).id
          /\ initializedRef' = TRUE
     ELSE UNCHANGED <<charts, activeChartId, initializedRef>>
  /\ mounted' = FileUploadOf(datasets)
  /\ IF mounted' # mounted
     THEN loading' = FALSE /\ error' = NoError
     ELSE UNCHANGED <<loading, error>>
  /\ UNCHANGED <<datasets, clock, uuids, xValues, yValues, calc,
                 panelVars, reading>>
  /\ Invalidate

\* RemoveDataset that also drops the charts whose default x is on the
\* dataset
RemoveDataset_Cascade(id) ==
  /\ PanelShown
  /\ id \in DatasetIds
  /\ datasets' = removeDataset(datasets, id)
  /\ effectPending' = TRUE
  /\ charts' = SelectSeq(charts, LAMBDA c : c.xColRef.fileId # id)
  /\ UNCHANGED <<activeChartId, initializedRef, clock, uuids,
                 xValues, yValues, calc,
                 panelVars, uploadVars>>
  /\ Invalidate

\* onRemoveDataset(ds.id)
RemoveDataset(id) ==
  /\ PanelShown
  /\ id \in DatasetIds
  /\ datasets' = removeDataset(datasets, id)
  /\ effectPending' = TRUE
  /\ UNCHANGED <<charts, activeChartId, initializedRef, clock, uuids,
                 xValues, yValues, calc,
                 panelVars, uploadVars>>
  /\ Invalidate

\* addChart
AddChart ==
  /\ PanelShown
  /\ uuids < MaxUuids
  /\ LET ds == datasets[Len(datasets)]
         newChart == createDefaultChart(
                       ds, "Chart " \o ToString(Len(charts) + 1),
                       Uuid(uuids + 1))
     IN  /\ charts' = Append(charts, newChart)
         /\ activeChartId' = newChart.id
  /\ uuids' = uuids + 1
  /\ UNCHANGED <<datasets, initializedRef, effectPending, clock,
                 xValues, yValues, calc,
                 panelVars, uploadVars>>
  /\ Invalidate

\* RemoveChart that leaves the active chart as it is
RemoveChart_KeepActive(id) ==
  /\ PanelShown
  /\ Len(charts) > 1
  /\ id \in ChartIds
  /\ charts' = SelectSeq(charts, LAMBDA c : c.id # id)
  /\ UNCHANGED <<datasets, activeChartId, initializedRef, effectPending,
                 clock, uuids, xValues, yValues, calc, panelVars, uploadVars>>
  /\ Invalidate

\* removeChart; the button exists while charts.length > 1
RemoveChart(id) ==
  /\ PanelShown
  /\ Len(charts) > 1
  /\ id \in ChartIds
  /\ LET newCharts == SelectSeq(charts, LAMBDA c : c.id # id)
     IN  /\ charts' = newCharts
         /\ activeChartId' =
              IF activeChartId = id /\ Len(newCharts) > 0
              THEN newCharts[1].id
              ELSE IF Len(newCharts) = 0 THEN NoChartId
              ELSE activeChartId
  /\ UNCHANGED <<datasets, initializedRef, effectPending, clock, uuids,
                 xValues, yValues, calc,
                 panelVars, uploadVars>>
  /\ Invalidate

\* onSelectChart(chart.id), from a tab or from a click on the chart
SelectChart(id) ==
  /\ PanelShown
  /\ id \in ChartIds
  /\ activeChartId' = id
  /\ UNCHANGED <<datasets, charts, initializedRef, effectPending, clock,
                 uuids, xValues, yValues, calc,
                 panelVars, uploadVars>>
  /\ Invalidate

\* onUpdateChart(activeChart.id, updates) from the chart settings
UpdateActiveChart(updates) ==
  /\ PanelShown
  /\ activeChart # UndefinedChart
  /\ charts' = updateChart(charts, activeChart.id, updates)
  /\ UNCHANGED <<datasets, activeChartId, initializedRef, effectPending,
                 clock, uuids, xValues, yValues, calc,
                 panelVars, uploadVars>>
  /\ Invalidate

\* one millisecond passes
Tick ==
  /\ clock < MaxClock
  /\ clock' = clock + 1
  /\ UNCHANGED <<datasets, charts, activeChartId, initializedRef,
                 effectPending, uuids, xValues, yValues, calc,
                 config, view, pc, panelVars, uploadVars>>

\* addYColumn; Date.now() is the clock
AddYColumn ==
  /\ PanelShown
  /\ activeChart # UndefinedChart
  /\ Len(activeChart.yColumns) < MaxSeries
  /\ \E random \in RandomDraws :
       LET usedColors == [k \in 1..Len(activeChart.yColumns) |->
                            activeChart.yColumns[k].color]
           ds == datasets[1]
           defaultYCol ==
             OrColumn(FindColumn(ds.columns,
                        {i \in 1..Len(ds.columns) :
                           ds.columns[i] # activeChart.xColRef.column}),
                      ColumnAt(ds.columns, 0))
           newY == [id |-> ToString(clock),
                    colRef |-> Ref(ds.id, defaultYCol),
                    xColRef |-> UndefinedRef,
                    axis |-> "left",
                    color |-> getNextColor(usedColors, random),
                    type |-> IF activeChart.type = "diagonal"
                             THEN "scatter" ELSE "line",
                    label |-> ""]
       IN  charts' = updateChart(charts, activeChart.id,
                       [yColumns |-> Append(activeChart.yColumns, newY)])
  /\ UNCHANGED <<datasets, activeChartId, initializedRef, effectPending,
                 clock, uuids, xValues, yValues, calc,
                 panelVars, uploadVars>>
  /\ Invalidate

\* removeYColumn(yId)
RemoveYColumn(yId) ==
  /\ PanelShown
  /\ activeChart # UndefinedChart
  /\ \E k \in 1..Len(activeChart.yColumns) : activeChart.yColumns[k].id = yId
  /\ charts' = updateChart(charts, activeChart.id,
                 [yColumns |-> SelectSeq(activeChart.yColumns,
                                         LAMBDA y : y.id # yId)])
  /\ UNCHANGED <<datasets, activeChartId, initializedRef, effectPending,
                 clock, uuids, xValues, yValues, calc,
                 panelVars, uploadVars>>
  /\ Invalidate

\* updateYColumn(yId, updates)
UpdateYColumn(yId, updates) ==
  /\ PanelShown
  /\ activeChart # UndefinedChart
  /\ \E k \in 1..Len(activeChart.yColumns) : activeChart.yColumns[k].id = yId
  /\ charts' = updateChart(charts, activeChart.id,
                 [yColumns |->
                    [k \in 1..Len(activeChart.yColumns) |->
                       IF activeChart.yColumns[k].id = yId
                       THEN Merge(activeChart.yColumns[k], updates)
                       ELSE activeChart.yColumns[k]]])
  /\ UNCHANGED <<datasets, activeChartId, initializedRef, effectPending,
                 clock, uuids, xValues, yValues, calc,
                 panelVars, uploadVars>>
  /\ Invalidate

----------------------------------------------------------------------------
(* App from its construction: loading and removing datasets, adding,       *)
(* removing and selecting charts                                            *)

ChartTypes == {"general", "diagonal"}

\* the same table under three file names: one already carries a "(1)",
\* one has no extension
LoadFile(name) == [FileA EXCEPT !.name = name]

LoadFiles == {LoadFile("a.csv"), LoadFile("a (1).csv"), LoadFile("data")}

\* after the first render; the effect of the mount is still to run
InitApp ==
  /\ datasets = <<>>
  /\ charts = <<>>
  /\ activeChartId = NoChartId
  /\ initializedRef = FALSE
  /\ effectPending = TRUE
  /\ clock = 0
  /\ uuids = 0
  /\ config = NoConfig
  /\ view = Null
  /\ pc = "idle"
  /\ xValues = <<>>
  /\ yValues = <<>>
  /\ calc = Null
  /\ PanelIdle
  /\ UploadIdle

NextData ==
  \/ \E f \in LoadFiles : HandleDataLoaded(f)
  \/ RenderActive
  \/ InitEffect
  \/ \E id \in DatasetIds : RemoveDataset(id)
  \/ AddChart
  \/ \E id \in ChartIds : RemoveChart(id)
  \/ \E id \in ChartIds : SelectChart(id)

SpecData == InitApp /\ [][NextData]_vars

\* the same with the kind of the active chart edited (updateChart)
NextCharts ==
  \/ NextData
  \/ \E t \in ChartTypes : UpdateActiveChart([type |-> t])

SpecCharts == InitApp /\ [][NextCharts]_vars

----------------------------------------------------------------------------
(* FileUpload: processFile and the callbacks of its FileReader, with        *)
(* handleDataLoaded of App as onDataLoaded.  A file is what it parses to:   *)
(* the rows of sheet_to_json and the keys of the first row.                 *)

\* a file whose first sheet has no data row
EmptyFile == [name |-> "empty.csv", columns |-> <<>>, data |-> <<>>]

UploadFiles == {LoadFile("a.csv"), EmptyFile}

\* a FileReader at work for the FileUpload (owner) that started it
Reader(f, owner) == [file |-> f, owner |-> owner]

\* setError / setLoading of the FileUpload `owner`: a state update of a
\* component that is not mounted any more is dropped
SetUploadState(owner, newLoading, newError) ==
  IF owner = mounted
  THEN loading' = newLoading /\ error' = newError
  ELSE UNCHANGED <<loading, error>>

\* processFile(file), up to reader.readAsArrayBuffer(file)
ProcessFile(f) ==
  /\ ~RenderDue
  /\ ~effectPending
  /\ Reader(f, mounted) \notin reading
  /\ loading' = TRUE
  /\ error' = NoError
  /\ reading' = reading \cup {Reader(f, mounted)}
  /\ UNCHANGED <<mounted, datasets, config, view, pc, appVars,
                 xValues, yValues, calc, panelVars>>

\* reader.onload: the parse, the test for no rows, onDataLoaded or the
\* catch, and the finally
ReaderOnload(r) ==
  /\ r \in reading
  /\ reading' = reading \ {r}
  /\ IF Len(r.file.data) = 0
     THEN /\ SetUploadState(r.owner, FALSE,
                            "Failed to parse " \o r.file.name \o ".")
          /\ UNCHANGED <<datasets, uuids, effectPending, config, view, pc>>
     ELSE /\ uuids < MaxUuids
          /\ datasets' = handleDataLoaded(datasets, r.file.data,
                                          r.file.columns, r.file.name,
                                          Uuid(uuids + 1))
          /\ uuids' = uuids + 1
          /\ effectPending' = TRUE
          /\ SetUploadState(r.owner, FALSE, error)
          /\ Invalidate
  /\ UNCHANGED <<mounted, charts, activeChartId, initializedRef, clock,
                 xValues, yValues, calc, panelVars>>

\* reader.onerror
ReaderOnerror(r) ==
  /\ r \in reading
  /\ reading' = reading \ {r}
  /\ SetUploadState(r.owner, FALSE, "Error reading " \o r.file.name \o ".")
  /\ UNCHANGED <<mounted, datasets, config, view, pc, appVars,
                 xValues, yValues, calc, panelVars>>

NextUpload ==
  \/ \E f \in UploadFiles : ProcessFile(f)
  \/ \E r \in reading : ReaderOnload(r)
  \/ \E r \in reading : ReaderOnerror(r)
  \/ RenderActive
  \/ InitEffect
  \/ \E id \in DatasetIds : RemoveDataset(id)

SpecUpload == InitApp /\ [][NextUpload]_vars

----------------------------------------------------------------------------
(* ConfigPanel on the chart the effect created: edits of the chart kind    *)
(* and of its series                                                        *)

SeriesTypes == {"line", "bar", "area", "scatter"}

\* one file, or two, loaded and the default chart created
LoadedDatasets ==
  { handleDataLoaded(<<>>, FileA.data, FileA.columns, FileA.name, Uuid(1)),
    handleDataLoaded(
      handleDataLoaded(<<>>, FileA.data, FileA.columns, FileA.name, Uuid(1)),
      FileB.data, FileB.columns, FileB.name, Uuid(2)) }

InitConfig ==
  /\ datasets \in LoadedDatasets
  /\ charts = <<InitialChart(datasets)>>
  /\ activeChartId = InitialChart(datasets).id
  /\ initializedRef = TRUE
  /\ effectPending = FALSE
  /\ clock = 0
  /\ uuids = Len(datasets)
  /\ config = NoConfig
  /\ view = Null
  /\ pc = "idle"
  /\ xValues = <<>>
  /\ yValues = <<>>
  /\ calc = Null
  /\ PanelIdle
  /\ UploadIdle

SeriesIds == {activeChart.yColumns[k].id : k \in 1..Len(activeChart.yColumns)}

\* the selects for the kind of a series exist on a general chart only
NextConfig ==
  \/ Tick
  \/ RenderActive
  \/ \E t \in ChartTypes : UpdateActiveChart([type |-> t])
  \/ AddYColumn
  \/ \E yId \in SeriesIds : RemoveYColumn(yId)
  \/ \E yId \in SeriesIds, t \in SeriesTypes :
       activeChart.type = "general" /\ UpdateYColumn(yId, [type |-> t])

SpecConfig == InitConfig /\ [][NextConfig]_vars

\* the panel with the metrics overlay switched on and off; the kinds of
\* the series stay as addYColumn sets them
NextRender ==
  \/ Tick
  \/ RenderActive
  \/ Rerender
  \/ \E t \in ChartTypes : UpdateActiveChart([type |-> t])
  \/ \E b \in BOOLEAN : UpdateActiveChart([showMetrics |-> b])
  \/ AddYColumn
  \/ \E yId \in SeriesIds : RemoveYColumn(yId)

SpecRender == InitConfig /\ [][NextRender]_vars

\* the panel with the axis of a series edited; the select exists on a
\* general chart only
NextAxis ==
  \/ Tick
  \/ RenderActive
  \/ \E t \in ChartTypes : UpdateActiveChart([type |-> t])
  \/ AddYColumn
  \/ \E yId \in SeriesIds : RemoveYColumn(yId)
  \/ \E yId \in SeriesIds, a \in {"left", "right"} :
       activeChart.type = "general" /\ UpdateYColumn(yId, [axis |-> a])

SpecAxis == InitConfig /\ [][NextAxis]_vars

----------------------------------------------------------------------------
(* C15: in every state reached by configuration edits, switches of the     *)
(* chart kind while series hold the kinds line, area or bar included, a     *)
(* diagonal chart draws every series as a scatter and its left y axis has   *)
(* the computed x-domain; a general chart draws every series with the kind  *)
(* configured for it and its left y axis is automatic.                      *)

\* the element that draws a series of a kind
KindElement ==
  [line |-> "Line", bar |-> "Bar", area |-> "Area", scatter |-> "Scatter"]

C15_DiagonalRendering ==
  Rendered =>
    /\ config = activeChart
    /\ IsDiagonal =>
         /\ \A k \in SeriesIdx :
              ~view.series[k].null => view.series[k].element = "Scatter"
         /\ view.leftDomain = view.xDomain
    /\ ~IsDiagonal =>
         /\ \A k \in SeriesIdx :
              ~view.series[k].null =>
                view.series[k].element = KindElement[config.yColumns[k].type]
         /\ view.leftDomain = AutoDomain

\* a chart switched to diagonal while one series holds the kind bar and
\* another the kind area, rendered
C15_Witness ==
  /\ Rendered
  /\ IsDiagonal
  /\ \E k1, k2 \in SeriesIdx :
       /\ config.yColumns[k1].type = "bar"
       /\ config.yColumns[k2].type = "area"
       /\ view.series[k1].element = "Scatter"
       /\ view.series[k2].element = "Scatter"
  /\ ~view.leftDomain.auto

----------------------------------------------------------------------------
(* C18 as stated: across loads and removals of datasets the charts are     *)
(* neither deleted nor altered: a step that loads or removes a dataset, or  *)
(* the effect that follows it, leaves the charts that exist and the active  *)
(* chart as they were.                                                      *)

\* a load, a removal, or the effect that follows them
DataStep ==
  \/ \E f \in LoadFiles : HandleDataLoaded(f)
  \/ \E id \in DatasetIds : RemoveDataset(id)
  \/ InitEffect

C18_ChartsOutliveDatasets ==
  [][(DataStep /\ charts # <<>>) => UNCHANGED <<charts, activeChartId>>]_vars

(* C18, amended: removeDataset changes the dataset collection only, and a  *)
(* load or the effect leaves the charts and the active chart as they were,  *)
(* except for the effect that runs with the initialisation flag reset (the  *)
(* effect resets it when it sees an empty collection): that one replaces    *)
(* the charts by the one default chart and makes it the active chart.       *)
C18_ChartsOutliveDatasetsUntilReset ==
  [][DataStep =>
       \/ UNCHANGED <<charts, activeChartId>>
       \/ /\ InitEffect
          /\ ~initializedRef
          /\ Len(datasets) > 0
          /\ charts' = <<InitialChart(datasets)>>
          /\ activeChartId' = "chart-1"]_vars

\* a dataset was removed, another is loaded, and a chart still refers to
\* the removed one
C18_Witness ==
  /\ Len(datasets) > 0
  /\ ~effectPending
  /\ initializedRef
  /\ \E i \in 1..Len(charts) :
       /\ charts[i].xColRef.fileId \notin DatasetIds
       /\ Len(charts[i].yColumns) > 0
       /\ charts[i].yColumns[1].colRef.fileId \notin DatasetIds

----------------------------------------------------------------------------
(* C19: after any sequence of handleDataLoaded and removeDataset the names *)
(* of the loaded datasets are pairwise distinct, and the renaming loop      *)
(* terminates: for a collection of n datasets it ends with a counter of at  *)
(* most n + 1.                                                              *)

C19_NamesDistinct ==
  /\ \A i, j \in 1..Len(datasets) :
       i # j => datasets[i].name # datasets[j].name
  /\ \A f \in LoadFiles :
       UniqueNameLoop(datasets, f.name, f.name, 1).counter
         <= Len(datasets) + 1

\* one batch, before the effect has run: a file that already carries
\* " (1)" and then the same name twice, the second renamed past " (1)"
C19_Witness ==
  /\ charts = <<>>
  /\ effectPending
  /\ Len(datasets) = 3
  /\ datasets[1].name = "a (1).csv"
  /\ datasets[2].name = "a.csv"
  /\ datasets[3].name = "a (2).csv"

----------------------------------------------------------------------------
(* C20: the series of one chart have pairwise distinct ids, also after     *)
(* several addYColumn in quick succession and on a chart that               *)
(* createDefaultChart made.                                                 *)

C20_SeriesIdsDistinct ==
  \A c \in 1..Len(charts) :
    \A j, k \in 1..Len(charts[c].yColumns) :
      j # k => charts[c].yColumns[j].id # charts[c].yColumns[k].id

----------------------------------------------------------------------------
(* getNextColor on its own *)

\* the colours in use
UsedSet == {colorsUsed[i] : i \in 1..Len(colorsUsed)}

\* the palette positions whose colour is not in use
FreePositions == {i \in 1..Len(CHART_COLORS) : CHART_COLORS[i] \notin UsedSet}

\* getNextColor has returned
ColorDrawn == pc = "done" /\ nextColor # ""

(* C21: for every usedColors that does not contain all palette entries,    *)
(* getNextColor returns the palette entry of lowest palette index that is   *)
(* not in usedColors; the result is never a member of usedColors.           *)
C21_FirstUnusedColor ==
  (ColorDrawn /\ FreePositions # {}) =>
    /\ \E i \in FreePositions :
         /\ \A j \in FreePositions : i <= j
         /\ nextColor = CHART_COLORS[i]
    /\ nextColor \notin UsedSet

\* the first two and the fourth palette entries are in use, in reverse
\* order, and the third is returned
C21_Witness ==
  /\ ColorDrawn
  /\ colorsUsed = <<CHART_COLORS[4], CHART_COLORS[2], CHART_COLORS[1]>>
  /\ nextColor = CHART_COLORS[3]

----------------------------------------------------------------------------
(* C22: when usedColors contains every palette entry, getNextColor         *)
(* returns, for every value of the random draw, a string that consists of   *)
(* '#' followed by exactly 6 hexadecimal digits.                            *)

IsHexColor(str) ==
  /\ Len(str) = 7
  /\ SubSeq(str, 1, 1) = "#"
  /\ \A i \in 2..7 :
       \E d \in 1..Len(HexDigits) : SubSeq(str, i, i) = SubSeq(HexDigits, d, d)

C22_FallbackIsHexColor ==
  (ColorDrawn /\ FreePositions = {}) => IsHexColor(nextColor)

\* on draws of at least 0x100000 the fallback does return six digits
Aux_C22_SixDigitDraws ==
  (ColorDrawn /\ FreePositions = {}) =>
    \/ IsHexColor(nextColor)
    \/ \E random \in RandomDraws :
         random < 1048576 /\ nextColor = "#" \o ToHex(random)

----------------------------------------------------------------------------
(* C23: after any sequence of dataset loads and removals in which no more  *)
(* datasets are loaded at once than the palette has entries, no two         *)
(* currently loaded datasets carry the same display colour.                 *)

C23_DatasetColorsDistinct ==
  Len(datasets) <= Len(CHART_COLORS) =>
    \A i, j \in 1..Len(datasets) :
      i # j => datasets[i].color # datasets[j].color

\* as long as nothing was removed the colours are distinct: the k-th
\* dataset of the collection carries the k-th palette entry
Aux_C23_ColorsFollowPositions ==
  (uuids = Len(datasets) /\ Len(datasets) <= Len(CHART_COLORS)) =>
    \A i \in 1..Len(datasets) : datasets[i].color = CHART_COLORS[i]

----------------------------------------------------------------------------
(* C24: series points, the x-domain and the metrics are deterministic      *)
(* functions of (datasets, chart configuration): a render changes neither   *)
(* the datasets nor the charts, what it computes is a function of the two   *)
(* alone, and a second render on unchanged inputs computes what the first   *)
(* one did, whatever the clock and the edits that came before.              *)

RenderStep == RenderActive \/ Rerender

----------------------------------------------------------------------------
(* C25: the default chart is created only once, when the first dataset(s)  *)
(* arrive.  The effect that finds datasets while the initialisation flag is *)
(* down (every dataset then arrived after the collection was last seen      *)
(* empty: one batch) creates exactly one chart, 'chart-1', built from the   *)
(* first dataset, and makes it active; once that is done and for as long as *)
(* a dataset stays loaded, a load and the effect that follows it leave the  *)
(* charts and the active chart as they are.                                 *)

LoadStep == \E f \in LoadFiles : HandleDataLoaded(f)

C25_DefaultChartOnce ==
  /\ [](/\ (~initializedRef /\ Len(datasets) > 0) => effectPending
        /\ (~effectPending /\ Len(datasets) > 0) =>
             initializedRef /\ Len(charts) >= 1)
  /\ [][/\ LoadStep => UNCHANGED <<charts, activeChartId>>
        /\ InitEffect =>
             IF Len(datasets) > 0 /\ ~initializedRef
             THEN /\ Len(charts') = 1
                  /\ charts'[1] =
                       [createDefaultChart(datasets[1], "Main Chart", Uuid(0))
                          EXCEPT !.id = "chart-1"]
                  /\ activeChartId' = "chart-1"
             ELSE UNCHANGED <<charts, activeChartId>>]_vars

\* a second dataset was loaded after a second chart had been added: both
\* charts are there and the added one is still the active one
C25_Witness ==
  /\ ~effectPending
  /\ Len(datasets) = 2
  /\ datasets[2].id = Uuid(3)
  /\ Len(charts) = 2
  /\ charts[1].id = "chart-1"
  /\ charts[2].id = Uuid(2)
  /\ activeChartId = Uuid(2)

----------------------------------------------------------------------------
(* C26: a file that parses to zero rows never becomes a dataset:           *)
(* onDataLoaded is not invoked for it, an error message is set and the      *)
(* loading flag is cleared; therefore every dataset in the application      *)
(* state has at least one row.                                              *)

\* reader.onload runs for a file without rows
EmptyOnload(r) == ReaderOnload(r) /\ Len(r.file.data) = 0

C26_EmptyFileRejected ==
  /\ [](\A i \in 1..Len(datasets) : Len(datasets[i].data) >= 1)
  /\ [][\A r \in reading :
          EmptyOnload(r) =>
            /\ UNCHANGED <<datasets, uuids>>
            /\ error' = "Failed to parse " \o r.file.name \o "."
            /\ loading' = FALSE]_vars

\* what does hold: no file without rows becomes a dataset, and the message
\* is set and the flag cleared whenever the FileUpload that read the file
\* is still the mounted one
Aux_C26_WhileMounted ==
  /\ [](\A i \in 1..Len(datasets) : Len(datasets[i].data) >= 1)
  /\ [][\A r \in reading :
          EmptyOnload(r) =>
            /\ UNCHANGED <<datasets, uuids>>
            /\ r.owner = mounted =>
                 /\ error' = "Failed to parse " \o r.file.name \o "."
                 /\ loading' = FALSE]_vars

----------------------------------------------------------------------------
(* C27: in every state reachable through addChart, removeChart, the        *)
(* selection of a chart, updateChart, dataset loads and dataset removals,   *)
(* activeChartId is either null or the id of a chart in the collection;     *)
(* after the removal of the active chart the first remaining chart is the   *)
(* active one; and activeChartId is null when the collection is empty.      *)

C27_ActiveChartValid ==
  /\ [](/\ activeChartId = NoChartId \/ activeChartId \in ChartIds
        /\ charts = <<>> => activeChartId = NoChartId)
  /\ [][\A id \in ChartIds :
          (RemoveChart(id) /\ activeChartId = id) =>
            /\ charts' = SelectSeq(charts, LAMBDA c : c.id # id)
            /\ activeChartId' = charts'[1].id]_vars

\* 'chart-1' was removed; of the two charts added after it the first is
\* the active one, though addChart had made the second one active
C27_Witness ==
  /\ ~effectPending
  /\ Len(charts) = 2
  /\ charts[1].id = Uuid(2)
  /\ charts[2].id = Uuid(3)
  /\ activeChartId = Uuid(2)

----------------------------------------------------------------------------
(* C28: for every series of a chart whose x and y datasets both exist, the *)
(* n its metrics report equals the number of points plotted for it, and    *)
(* its metrics are absent exactly when it has zero points.                  *)

C28_MetricsCountPlotted ==
  (Rendered /\ config.showMetrics) =>
    \A k \in SeriesIdx :
      ~Dangling(k) =>
        /\ ~view.series[k].null
        /\ view.metricsMapped[k].null <=> Len(view.series[k].data) = 0
        /\ ~view.metricsMapped[k].null =>
             view.metricsMapped[k].n = Len(view.series[k].data)

\* one series with metrics over fewer points than rows were paired, and
\* one series without points and without metrics
C28_Witness ==
  /\ Rendered
  /\ config.showMetrics
  /\ \E k1, k2 \in SeriesIdx :
       /\ ~Dangling(k1)
       /\ ~view.metricsMapped[k1].null
       /\ view.metricsMapped[k1].n = Len(view.series[k1].data)
       /\ view.metricsMapped[k1].n < JoinLen(k1)
       /\ ~Dangling(k2)
       /\ JoinLen(k2) > 0
       /\ view.metricsMapped[k2].null
       /\ Len(view.series[k2].data) = 0

----------------------------------------------------------------------------
(* C29: after any sequence of configuration edits (a series set to the     *)
(* right axis on a general chart, the chart kind switched between general   *)
(* and diagonal, series added and removed), every rendered series is bound  *)
(* to a y axis that the chart renders: no series with axis 'right' is drawn *)
(* in a chart whose right axis is not rendered.                             *)

C29_SeriesAxisRendered ==
  Rendered =>
    \A k \in SeriesIdx :
      ~view.series[k].null => view.series[k].yAxisId \in view.yAxes

\* on a general chart every series is bound to a rendered axis
Aux_C29_GeneralChart == (Rendered /\ ~IsDiagonal) => C29_SeriesAxisRendered

----------------------------------------------------------------------------
(* C30: for every ColumnRef (fileId, column) selectable in the panel,      *)
(* fromSelectValue(toSelectValue(ref)) equals ref, for every column name,   *)
(* names that contain the separator "::" included; the empty select value   *)
(* maps to no reference.                                                    *)

C30_SelectRoundTrip ==
  /\ pc = "done" => selectedRef = optionRef
  /\ fromSelectValue("") = UndefinedRef

\* the round trip does hold for the column names without the separator
Aux_C30_NoSeparator ==
  (pc = "done" /\ optionRef # UndefinedRef
     /\ IndexOf(optionRef.column, "::", 1) = 0) =>
    selectedRef = optionRef

====
